---- MODULE Spec2Model ----
(***************************************************************************)
(* RBAC core of the document-control API: users, roles, permissions and    *)
(* the two join tables user_role and role_permissions, with the endpoints  *)
(* of app/api/v1/endpoints/{role,permission,users}.py and the resolver     *)
(* helpers of app/core/permissions.py.                                     *)
(*                                                                         *)
(* Every request handler is an operator from (database, arguments) to a    *)
(* result [db, status, body]; the action for the handler commits the       *)
(* result's database.  Read-only endpoints are operators over the          *)
(* database.                                                               *)
(***************************************************************************)
EXTENDS Integers, Sequences, FiniteSets, Bags, TLC

\* ---- bounds -------------------------------------------------------------
MaxUsers == 2
MaxRoles == 2
MaxPerms == 2
MaxSlugs == 2
MaxBulk == 2
MaxRequests == 3
MaxCategories == 2
MaxDocuments == 2
MaxNotifications == 3

UserIds == 1..MaxUsers
RoleIds == 1..MaxRoles
PermIds == 1..MaxPerms

\* Python's None for an optional request field.
None == "null"

RoleNames == {"Admin", "Editor"}
RoleSlugInputs == {"admin", "Editor"}
PermSlugs == {"admin-all", "documents.create", "documents.update"}

\* str.lower().replace(" ", "-") on the strings the model uses.
Slugify(s) == CASE s = "Admin" -> "admin"
                [] s = "Editor" -> "editor"
                [] OTHER -> s

\* Sequences over S of length 1..n (request lists; min_items = 1).
SeqsUpTo(S, n) == UNION {[1..k -> S] : k \in 1..n}

SeqSet(s) == {s[i] : i \in DOMAIN s}

RECURSIVE SortedSeq(_)
SortedSeq(S) == IF S = {} THEN <<>>
                ELSE LET m == CHOOSE x \in S : \A y \in S : x <= y
                     IN <<m>> \o SortedSeq(S \ {m})

VARIABLES users, roles, permissions, user_role, role_permissions

\* The rows stored in the two junction tables, counted per (id, id) pair, and
\* the requests whose handler has run up to db.commit() (their pending
\* INSERTs); user_role and role_permissions are what a session loads from
\* the stored rows.
VARIABLES user_role_rows, role_permission_rows, inflight

ConcurrentVars == <<user_role_rows, role_permission_rows, inflight>>

\* The columns name and email of the users table, per user id; they are
\* tracked by the specifications about user records and empty elsewhere.
VARIABLES user_name, user_email

ProfileVars == <<user_name, user_email>>

\* The tables categories (id -> name), documents (id -> code, category_id)
\* and notifications (id -> notifiable_id, read_at); they are tracked by the
\* specification of these resources and empty elsewhere.
VARIABLES categories, documents, notifications

ResourceVars == <<categories, documents, notifications>>

\* The bearer tokens the server has issued and that have not been replaced
\* (each the payload it signed: sub and exp), and the clock that
\* jwt.decode compares exp with; they are tracked by the specification of
\* the token check, and empty and zero elsewhere.
VARIABLES tokens, now

AuthVars == <<tokens, now>>

\* The tables document_revisions (id -> document_id, revision_number, status)
\* and document_history (id -> document_id, revision_id), and whether the
\* database enforces FOREIGN KEY constraints (SQLite does not unless asked
\* to, other engines do); they are tracked by the specifications of the
\* document endpoints, and empty and FALSE elsewhere.
VARIABLES revisions, histories, foreign_keys

RevisionVars == <<revisions, histories, foreign_keys>>

vars == <<users, roles, permissions, user_role, role_permissions,
          ConcurrentVars, ProfileVars, ResourceVars, AuthVars, RevisionVars>>

NoTokens ==
    /\ tokens = {}
    /\ now = 0

NoRevisions ==
    /\ revisions = <<>>
    /\ histories = <<>>
    /\ foreign_keys = FALSE

NoResources ==
    /\ categories = <<>>
    /\ documents = <<>>
    /\ notifications = <<>>

\* The database as one value: the tables users, roles, permissions and the
\* junction tables user_role (user_id, role_id) and role_permissions
\* (role_id, permission_id), both keyed by the pair.
DB == [users |-> users, roles |-> roles, permissions |-> permissions,
       user_role |-> user_role, role_permissions |-> role_permissions]

\* The stored rows of a junction table holding each pair of `pairs` once.
RowsOf(pairs, keys) == [x \in keys |-> IF x \in pairs THEN 1 ELSE 0]

\* The pairs a session loads from the stored rows (relationship collections
\* are sets of objects).
LoadedPairs(rows) == {x \in DOMAIN rows : rows[x] > 0}

\* ---- ORM relationships --------------------------------------------------
\* user.roles: the roles joined to the user through user_role, as a list.
UserRoles(db, u) == SortedSeq({r \in DOMAIN db.roles : <<u, r>> \in db.user_role})

\* role.users
RoleUsers(db, r) == SortedSeq({u \in db.users : <<u, r>> \in db.user_role})

\* role.permissions: the permissions joined to the role, as a list.
RolePermissions(db, r) ==
    SortedSeq({p \in DOMAIN db.permissions : <<r, p>> \in db.role_permissions})

\* Permission.get_by_slug: the permission row with that slug, or 0.
Permission_get_by_slug(db, slug) ==
    IF \E p \in DOMAIN db.permissions : db.permissions[p] = slug
    THEN CHOOSE p \in DOMAIN db.permissions : db.permissions[p] = slug
    ELSE 0

\* Permission.get_by_slugs: the rows whose slug is IN the list.
Permission_get_by_slugs(db, slugs) ==
    SortedSeq({p \in DOMAIN db.permissions : db.permissions[p] \in SeqSet(slugs)})

\* db.query(Role).filter(Role.name == name).first(), or 0.
Role_get_by_name(db, name) ==
    IF \E r \in DOMAIN db.roles : db.roles[r].name = name
    THEN CHOOSE r \in DOMAIN db.roles : db.roles[r].name = name
    ELSE 0

\* ---- resolver helpers (app/core/permissions.py) ------------------------
\* Variant: the loop answers from the first role alone.
AnyRoleGrantsFirstRole(db, rs, p) ==
    IF rs = <<>> THEN FALSE
    ELSE p \in SeqSet(RolePermissions(db, Head(rs)))

RECURSIVE AnyRoleGrants(_, _, _)
AnyRoleGrants(db, rs, p) ==
    IF rs = <<>> THEN FALSE
    ELSE IF p \in SeqSet(RolePermissions(db, Head(rs))) THEN TRUE
    ELSE AnyRoleGrants(db, Tail(rs), p)

check_user_has_permission(db, user_id, permission_slug) ==
    IF user_id \notin db.users THEN FALSE
    ELSE LET permission == Permission_get_by_slug(db, permission_slug)
         IN IF permission = 0 THEN FALSE
            ELSE AnyRoleGrants(db, UserRoles(db, user_id), permission)

\* Variant: the loop stops after the first role.
CollectSlugsFirstRole(db, rs, acc) ==
    IF rs = <<>> THEN acc
    ELSE acc \cup {db.permissions[p] : p \in SeqSet(RolePermissions(db, Head(rs)))}

RECURSIVE CollectSlugs(_, _, _)
CollectSlugs(db, rs, acc) ==
    IF rs = <<>> THEN acc
    ELSE CollectSlugs(db, Tail(rs),
           acc \cup {db.permissions[p] : p \in SeqSet(RolePermissions(db, Head(rs)))})

get_user_permissions(db, user_id) ==
    IF user_id \notin db.users THEN {}
    ELSE CollectSlugs(db, UserRoles(db, user_id), {})

\* ---- read endpoints ------------------------------------------------------
\* Variant: the loop breaks at the first role that grants the permission.
RECURSIVE GrantingRolesFirstGrant(_, _, _, _)
GrantingRolesFirstGrant(db, rs, p, acc) ==
    IF rs = <<>> THEN acc
    ELSE IF p \in SeqSet(RolePermissions(db, Head(rs)))
    THEN [has_permission |-> TRUE,
          granted_via_roles |-> Append(acc.granted_via_roles, db.roles[Head(rs)].name)]
    ELSE GrantingRolesFirstGrant(db, Tail(rs), p, acc)

\* for role in user.roles:
\*     if permission in role.permissions:
\*         has_permission = True; granted_via_roles.append(role.name)
RECURSIVE GrantingRoles(_, _, _, _)
GrantingRoles(db, rs, p, acc) ==
    IF rs = <<>> THEN acc
    ELSE GrantingRoles(db, Tail(rs), p,
           IF p \in SeqSet(RolePermissions(db, Head(rs)))
           THEN [has_permission |-> TRUE,
                 granted_via_roles |->
                     Append(acc.granted_via_roles, db.roles[Head(rs)].name)]
           ELSE acc)

\* Variant: an unknown user or slug is answered with has_permission = false.
check_user_permission_lenient(db, user_id, permission_slug) ==
    LET permission == Permission_get_by_slug(db, permission_slug) IN
    IF user_id \notin db.users \/ permission = 0
    THEN [status |-> 200, user_id |-> user_id,
          permission_slug |-> permission_slug,
          has_permission |-> FALSE, granted_via_roles |-> <<>>]
    ELSE LET found == GrantingRoles(db, UserRoles(db, user_id), permission,
                        [has_permission |-> FALSE, granted_via_roles |-> <<>>])
         IN [status |-> 200, user_id |-> user_id,
             permission_slug |-> permission_slug,
             has_permission |-> found.has_permission,
             granted_via_roles |-> found.granted_via_roles]

\* GET /permissions/users/{user_id}/check/{permission_slug}
check_user_permission(db, user_id, permission_slug) ==
    IF user_id \notin db.users
    THEN [status |-> 404, detail |-> "User not found"]
    ELSE LET permission == Permission_get_by_slug(db, permission_slug)
         IN IF permission = 0
            THEN [status |-> 404, detail |-> "Permission not found"]
            ELSE LET found == GrantingRoles(db, UserRoles(db, user_id), permission,
                                [has_permission |-> FALSE,
                                 granted_via_roles |-> <<>>])
                 IN [status |-> 200, user_id |-> user_id,
                     permission_slug |-> permission_slug,
                     has_permission |-> found.has_permission,
                     granted_via_roles |-> found.granted_via_roles]

RECURSIVE CollectPerms(_, _, _)
CollectPerms(db, rs, acc) ==
    IF rs = <<>> THEN acc
    ELSE CollectPerms(db, Tail(rs), acc \cup SeqSet(RolePermissions(db, Head(rs))))

\* GET /permissions/users/{user_id}/permissions
get_user_permissions_endpoint(db, user_id) ==
    IF user_id \notin db.users
    THEN [status |-> 404, detail |-> "User not found"]
    ELSE [status |-> 200,
          permissions |-> CollectPerms(db, UserRoles(db, user_id), {})]

\* GET /role/check/{user_id}/{role_name}
check_user_role_by_get(db, user_id, role_name) ==
    IF user_id \notin db.users
    THEN [status |-> 404, detail |-> "User not found"]
    ELSE LET role == Role_get_by_name(db, role_name)
         IN IF role = 0
            THEN [status |-> 404, detail |-> "Role not found"]
            ELSE [status |-> 200,
                  has_role |-> (role \in SeqSet(UserRoles(db, user_id))),
                  role_name |-> db.roles[role].name, user_id |-> user_id]

\* ---- request schemas ------------------------------------------------------
\* RolePermissionAssign/RolePermissionUnassign.validate_permission_slugs:
\* drop repeated slugs, keeping the first occurrence of each.
RECURSIVE UniqueSlugs(_, _)
UniqueSlugs(v, unique_slugs) ==
    IF v = <<>> THEN unique_slugs
    ELSE UniqueSlugs(Tail(v),
           IF Head(v) \in SeqSet(unique_slugs) THEN unique_slugs
           ELSE Append(unique_slugs, Head(v)))

\* Variant: the validator returns the list as given.
validate_permission_slugs_keep(v) == v

validate_permission_slugs(v) == UniqueSlugs(v, <<>>)

\* BulkPermissionOperation.validate_permission_ids: the same for ids.
validate_permission_ids(v) == UniqueSlugs(v, <<>>)

\* RoleCreate.generate_slug: the given slug lower-cased and hyphenated, or
\* the slug derived from the name when none is given.
generate_slug(v, name) == IF v # None THEN Slugify(v) ELSE Slugify(name)

\* RoleUpdate.slug_must_be_lowercase
slug_must_be_lowercase(v) == IF v # None /\ v # "" THEN Slugify(v) ELSE v

\* ---- role endpoints (app/api/v1/endpoints/role.py) -----------------------
\* POST /role/ ; new_id is the primary key the database allots.
create_role(db, name, slug_in, new_id) ==
    LET slug == generate_slug(slug_in, name) IN
    IF \E r \in DOMAIN db.roles : db.roles[r].name = name
    THEN [db |-> db, status |-> 400, detail |-> "Role name already exists"]
    ELSE IF \E r \in DOMAIN db.roles : db.roles[r].slug = slug
    THEN [db |-> db, status |-> 400, detail |-> "Role slug already exists"]
    ELSE [db |-> [db EXCEPT !.roles =
                    [r \in DOMAIN db.roles \cup {new_id} |->
                       IF r = new_id THEN [name |-> name, slug |-> slug]
                       ELSE db.roles[r]]],
          status |-> 201, detail |-> "created"]

\* Python's truth value of an optional string: None and "" are false.
Truthy(v) == v # None /\ v # ""

\* The UNIQUE constraints of roles.name and roles.slug, evaluated at the
\* flush for the row about to be written.
RoleRowIsUnique(db, role_id, row) ==
    \A r \in DOMAIN db.roles \ {role_id} :
        db.roles[r].name # row.name /\ db.roles[r].slug # row.slug

\* PUT /role/{role_id} ; a field equal to None is not set in the request.
\* The duplicate checks run for a field whose value is true; every field
\* set in the request is written.  A row the UNIQUE constraints refuse makes
\* db.commit() raise IntegrityError: the answer is 500 and nothing is
\* written.
update_role(db, role_id, name, slug_in) ==
    LET slug == slug_must_be_lowercase(slug_in) IN
    IF role_id \notin DOMAIN db.roles
    THEN [db |-> db, status |-> 404, detail |-> "Role not found"]
    ELSE IF Truthy(name) /\ \E r \in DOMAIN db.roles :
                               db.roles[r].name = name /\ r # role_id
    THEN [db |-> db, status |-> 400, detail |-> "Role name already exists"]
    ELSE IF Truthy(slug) /\ \E r \in DOMAIN db.roles :
                               db.roles[r].slug = slug /\ r # role_id
    THEN [db |-> db, status |-> 400, detail |-> "Role slug already exists"]
    ELSE LET row == [name |-> IF name # None THEN name
                              ELSE db.roles[role_id].name,
                     slug |-> IF slug # None THEN slug
                              ELSE db.roles[role_id].slug]
         IN IF ~RoleRowIsUnique(db, role_id, row)
            THEN [db |-> db, status |-> 500, detail |-> "IntegrityError"]
            ELSE [db |-> [db EXCEPT !.roles[role_id] = row],
                  status |-> 200, detail |-> "updated"]

\* Variant: the role is deleted whether or not users hold it.
delete_role_cascade(db, role_id) ==
    IF role_id \notin DOMAIN db.roles
    THEN [db |-> db, status |-> 404, detail |-> "Role not found"]
    ELSE [db |-> [db EXCEPT
                    !.roles = [r \in DOMAIN db.roles \ {role_id} |-> db.roles[r]],
                    !.user_role = {x \in @ : x[2] # role_id},
                    !.role_permissions = {x \in @ : x[1] # role_id}],
          status |-> 200, detail |-> "Role deleted successfully"]

\* DELETE /role/{role_id} ; deleting the row also deletes its rows of the
\* junction tables (the ORM does so for a many-to-many relationship).
delete_role(db, role_id) ==
    IF role_id \notin DOMAIN db.roles
    THEN [db |-> db, status |-> 404, detail |-> "Role not found"]
    ELSE IF Len(RoleUsers(db, role_id)) > 0
    THEN [db |-> db, status |-> 400, detail |-> "Cannot delete role"]
    ELSE [db |-> [db EXCEPT
                    !.roles = [r \in DOMAIN db.roles \ {role_id} |-> db.roles[r]],
                    !.user_role = {x \in @ : x[2] # role_id},
                    !.role_permissions = {x \in @ : x[1] # role_id}],
          status |-> 200, detail |-> "Role deleted successfully"]

\* Variant: the role is appended without looking at user.roles.
assign_role_to_user_unchecked(db, user_id, role_id) ==
    IF user_id \notin db.users
    THEN [db |-> db, status |-> 404, detail |-> "User not found"]
    ELSE IF role_id \notin DOMAIN db.roles
    THEN [db |-> db, status |-> 404, detail |-> "Role not found"]
    ELSE [db |-> [db EXCEPT !.user_role = @ \cup {<<user_id, role_id>>}],
          status |-> 200, detail |-> "assigned"]

\* POST /role/assign
assign_role_to_user(db, user_id, role_id) ==
    IF user_id \notin db.users
    THEN [db |-> db, status |-> 404, detail |-> "User not found"]
    ELSE IF role_id \notin DOMAIN db.roles
    THEN [db |-> db, status |-> 404, detail |-> "Role not found"]
    ELSE IF role_id \in SeqSet(UserRoles(db, user_id))
    THEN [db |-> db, status |-> 400, detail |-> "User already has this role"]
    ELSE [db |-> [db EXCEPT !.user_role = @ \cup {<<user_id, role_id>>}],
          status |-> 200, detail |-> "assigned"]

\* POST /role/unassign
unassign_role_from_user(db, user_id, role_id) ==
    IF user_id \notin db.users
    THEN [db |-> db, status |-> 404, detail |-> "User not found"]
    ELSE IF role_id \notin DOMAIN db.roles
    THEN [db |-> db, status |-> 404, detail |-> "Role not found"]
    ELSE IF role_id \notin SeqSet(UserRoles(db, user_id))
    THEN [db |-> db, status |-> 400, detail |-> "User does not have this role"]
    ELSE [db |-> [db EXCEPT !.user_role = @ \ {<<user_id, role_id>>}],
          status |-> 200, detail |-> "removed"]

\* db.query(User).filter(User.id.in_(user_ids)).all()
UsersIn(db, user_ids) == SortedSeq({u \in db.users : u \in SeqSet(user_ids)})

\* Variant: the loop returns after the first user.
AppendRoleToEachFirst(db, us, role_id, count) ==
    IF us = <<>> THEN [db |-> db, count |-> count]
    ELSE IF role_id \notin SeqSet(UserRoles(db, Head(us)))
    THEN [db |-> [db EXCEPT !.user_role = @ \cup {<<Head(us), role_id>>}],
          count |-> count + 1]
    ELSE [db |-> db, count |-> count]

\* for user in users: if role not in user.roles: user.roles.append(role)
RECURSIVE AppendRoleToEach(_, _, _, _)
AppendRoleToEach(db, us, role_id, count) ==
    IF us = <<>> THEN [db |-> db, count |-> count]
    ELSE IF role_id \notin SeqSet(UserRoles(db, Head(us)))
    THEN AppendRoleToEach([db EXCEPT !.user_role = @ \cup {<<Head(us), role_id>>}],
                          Tail(us), role_id, count + 1)
    ELSE AppendRoleToEach(db, Tail(us), role_id, count)

\* for user in users: if role in user.roles: user.roles.remove(role)
RECURSIVE RemoveRoleFromEach(_, _, _, _)
RemoveRoleFromEach(db, us, role_id, count) ==
    IF us = <<>> THEN [db |-> db, count |-> count]
    ELSE IF role_id \in SeqSet(UserRoles(db, Head(us)))
    THEN RemoveRoleFromEach([db EXCEPT !.user_role = @ \ {<<Head(us), role_id>>}],
                            Tail(us), role_id, count + 1)
    ELSE RemoveRoleFromEach(db, Tail(us), role_id, count)

\* POST /role/assign/bulk
bulk_assign_role(db, role_id, user_ids) ==
    IF role_id \notin DOMAIN db.roles
    THEN [db |-> db, status |-> 404, detail |-> "Role not found"]
    ELSE LET us == UsersIn(db, user_ids) IN
         IF Len(us) # Len(user_ids)
         THEN [db |-> db, status |-> 404, detail |-> "Some users not found"]
         ELSE LET done == AppendRoleToEach(db, us, role_id, 0)
              IN [db |-> done.db, status |-> 200, detail |-> "assigned",
                  assigned_user_count |-> done.count, total_users |-> Len(us)]

\* POST /role/bulk/assign
bulk_assign_roles_alt(db, role_id, user_ids) ==
    IF role_id \notin DOMAIN db.roles
    THEN [db |-> db, status |-> 404, detail |-> "Role not found"]
    ELSE LET done == AppendRoleToEach(db, UsersIn(db, user_ids), role_id, 0)
         IN [db |-> done.db, status |-> 200, detail |-> "assigned",
             success_count |-> done.count, failed_count |-> 0]

\* POST /role/bulk/unassign
bulk_unassign_roles_alt(db, role_id, user_ids) ==
    IF role_id \notin DOMAIN db.roles
    THEN [db |-> db, status |-> 404, detail |-> "Role not found"]
    ELSE LET done == RemoveRoleFromEach(db, UsersIn(db, user_ids), role_id, 0)
         IN [db |-> done.db, status |-> 200, detail |-> "removed",
             success_count |-> done.count, failed_count |-> 0]

\* ---- the Admin gate (app/core/permissions.py) ----------------------------
\* [role.name for role in current_user.roles]
RoleNamesOf(db, u) == {db.roles[r].name : r \in SeqSet(UserRoles(db, u))}

\* @require_role(role_name) around a handler declared with `def`: a caller
\* without the role gets 403 before the handler runs.  Otherwise the handler
\* runs to its end, and an HTTPException it raises passes through; when it
\* returns, the wrapper awaits the returned value, which is not awaitable,
\* so the request ends with an unhandled TypeError (500) after the handler's
\* commit.
require_role(role_name, db, current_user, res) ==
    IF role_name \notin RoleNamesOf(db, current_user)
    THEN [db |-> db, status |-> 403, detail |-> "Role required"]
    ELSE IF res.status >= 400 THEN res
    ELSE [res EXCEPT !.status = 500]

\* ---- permission endpoints (app/api/v1/endpoints/permission.py) -----------
\* POST /permissions/ (body of the handler)
create_permission(db, slug, new_id) ==
    IF Permission_get_by_slug(db, slug) # 0
    THEN [db |-> db, status |-> 400, detail |-> "already exists"]
    ELSE [db |-> [db EXCEPT !.permissions =
                    [p \in DOMAIN db.permissions \cup {new_id} |->
                       IF p = new_id THEN slug ELSE db.permissions[p]]],
          status |-> 200, detail |-> "created"]

\* PUT /permissions/{permission_id} (body of the handler); slug = None when
\* the request sets only the description.
update_permission(db, permission_id, slug) ==
    IF permission_id \notin DOMAIN db.permissions
    THEN [db |-> db, status |-> 404, detail |-> "Permission not found"]
    ELSE IF slug # None /\ slug # db.permissions[permission_id]
            /\ Permission_get_by_slug(db, slug) # 0
    THEN [db |-> db, status |-> 400, detail |-> "already exists"]
    ELSE [db |-> [db EXCEPT !.permissions[permission_id] =
                    IF slug # None THEN slug ELSE @],
          status |-> 200, detail |-> "updated"]

\* db.delete(permission): the row and its rows of role_permissions.
DeletePermissionRow(db, p) ==
    [db EXCEPT !.permissions = [q \in DOMAIN db.permissions \ {p} |-> db.permissions[q]],
               !.role_permissions = {x \in @ : x[2] # p}]

\* DELETE /permissions/{permission_id} (body of the handler)
delete_permission(db, permission_id) ==
    IF permission_id \notin DOMAIN db.permissions
    THEN [db |-> db, status |-> 404, detail |-> "Permission not found"]
    ELSE [db |-> DeletePermissionRow(db, permission_id),
          status |-> 200, detail |-> "Permission deleted successfully"]

RECURSIVE DeleteEachPermission(_, _, _, _)
DeleteEachPermission(db, ids, success_count, failed_count) ==
    IF ids = <<>>
    THEN [db |-> db, success_count |-> success_count, failed_count |-> failed_count]
    ELSE IF Head(ids) \in DOMAIN db.permissions
    THEN DeleteEachPermission(DeletePermissionRow(db, Head(ids)), Tail(ids),
                              success_count + 1, failed_count)
    ELSE DeleteEachPermission(db, Tail(ids), success_count, failed_count + 1)

\* DELETE /permissions/bulk (body of the handler)
bulk_delete_permissions(db, permission_ids_in) ==
    LET permission_ids == validate_permission_ids(permission_ids_in)
        done == DeleteEachPermission(db, permission_ids, 0, 0)
    IN [db |-> done.db, status |-> 200, detail |-> "Bulk delete completed",
        success_count |-> done.success_count,
        failed_count |-> done.failed_count,
        total_requested |-> Len(permission_ids)]

\* DELETE /permissions/bulk with the outcome of its db.commit(): when the
\* commit raises, the handler rolls back and reports every id as failed.
bulk_delete_permissions_outcome(db, permission_ids_in, commit_ok) ==
    IF commit_ok THEN bulk_delete_permissions(db, permission_ids_in)
    ELSE LET permission_ids == validate_permission_ids(permission_ids_in)
         IN [db |-> db, status |-> 200, detail |-> "Bulk operation failed",
             success_count |-> 0,
             failed_count |-> Len(permission_ids),
             total_requested |-> Len(permission_ids)]

\* for permission in permissions:
\*     if permission not in role.permissions: role.permissions.append(permission)
RECURSIVE AppendEachPermission(_, _, _)
AppendEachPermission(db, role_id, ps) ==
    IF ps = <<>> THEN db
    ELSE IF Head(ps) \notin SeqSet(RolePermissions(db, role_id))
    THEN AppendEachPermission(
           [db EXCEPT !.role_permissions = @ \cup {<<role_id, Head(ps)>>}],
           role_id, Tail(ps))
    ELSE AppendEachPermission(db, role_id, Tail(ps))

\* Variant: the permission is unlinked from every role.
RECURSIVE RemoveEachPermissionEverywhere(_, _, _)
RemoveEachPermissionEverywhere(db, role_id, ps) ==
    IF ps = <<>> THEN db
    ELSE IF Head(ps) \in SeqSet(RolePermissions(db, role_id))
    THEN RemoveEachPermissionEverywhere(
           [db EXCEPT !.role_permissions = {x \in @ : x[2] # Head(ps)}],
           role_id, Tail(ps))
    ELSE RemoveEachPermissionEverywhere(db, role_id, Tail(ps))

\* for permission in permissions:
\*     if permission in role.permissions: role.permissions.remove(permission)
RECURSIVE RemoveEachPermission(_, _, _)
RemoveEachPermission(db, role_id, ps) ==
    IF ps = <<>> THEN db
    ELSE IF Head(ps) \in SeqSet(RolePermissions(db, role_id))
    THEN RemoveEachPermission(
           [db EXCEPT !.role_permissions = @ \ {<<role_id, Head(ps)>>}],
           role_id, Tail(ps))
    ELSE RemoveEachPermission(db, role_id, Tail(ps))

\* [slug for slug in permission_slugs if slug not in found_slugs]
MissingSlugs(db, slugs, found) ==
    SelectSeq(slugs, LAMBDA slug : slug \notin {db.permissions[p] : p \in SeqSet(found)})

\* RolePermissionResponse
RolePermissionResponse(db, role_id) ==
    [db |-> db, status |-> 200, detail |-> "ok", role_id |-> role_id,
     role_name |-> db.roles[role_id].name,
     permissions |-> RolePermissions(db, role_id),
     total_permissions |-> Len(RolePermissions(db, role_id))]

\* Variant: the resolved permissions are linked before the missing ones are
\* reported.
assign_permissions_to_role_partial(db, role_id, permission_slugs_in) ==
    LET permission_slugs == validate_permission_slugs(permission_slugs_in) IN
    IF role_id \notin DOMAIN db.roles
    THEN [db |-> db, status |-> 404, detail |-> "Role not found"]
    ELSE LET perms == Permission_get_by_slugs(db, permission_slugs)
             linked == AppendEachPermission(db, role_id, perms) IN
         IF Len(perms) # Len(permission_slugs)
         THEN [db |-> linked, status |-> 404, detail |-> "Permissions not found",
               missing_slugs |-> MissingSlugs(db, permission_slugs, perms)]
         ELSE RolePermissionResponse(linked, role_id)

\* POST /permissions/roles/{role_id}/assign
assign_permissions_to_role(db, role_id, permission_slugs_in) ==
    LET permission_slugs == validate_permission_slugs(permission_slugs_in) IN
    IF role_id \notin DOMAIN db.roles
    THEN [db |-> db, status |-> 404, detail |-> "Role not found"]
    ELSE LET perms == Permission_get_by_slugs(db, permission_slugs) IN
         IF Len(perms) # Len(permission_slugs)
         THEN [db |-> db, status |-> 404, detail |-> "Permissions not found",
               missing_slugs |-> MissingSlugs(db, permission_slugs, perms)]
         ELSE RolePermissionResponse(AppendEachPermission(db, role_id, perms), role_id)

\* Variant: an unresolved slug is reported as it is by the assign endpoint.
unassign_permissions_from_role_strict(db, role_id, permission_slugs_in) ==
    LET permission_slugs == validate_permission_slugs(permission_slugs_in) IN
    IF role_id \notin DOMAIN db.roles
    THEN [db |-> db, status |-> 404, detail |-> "Role not found"]
    ELSE LET perms == Permission_get_by_slugs(db, permission_slugs) IN
         IF Len(perms) # Len(permission_slugs)
         THEN [db |-> db, status |-> 404, detail |-> "Permissions not found"]
         ELSE RolePermissionResponse(RemoveEachPermission(db, role_id, perms), role_id)

\* POST /permissions/roles/{role_id}/unassign
unassign_permissions_from_role(db, role_id, permission_slugs_in) ==
    LET permission_slugs == validate_permission_slugs(permission_slugs_in) IN
    IF role_id \notin DOMAIN db.roles
    THEN [db |-> db, status |-> 404, detail |-> "Role not found"]
    ELSE LET perms == Permission_get_by_slugs(db, permission_slugs)
         IN RolePermissionResponse(RemoveEachPermission(db, role_id, perms), role_id)

\* ---- user endpoints (app/api/v1/endpoints/users.py) ----------------------
\* POST /users/ with an email that is not registered yet.
create_user(db, new_id) ==
    [db |-> [db EXCEPT !.users = @ \cup {new_id}], status |-> 201, detail |-> "created"]

\* Variant: only the row of users is deleted.
DeleteUserRowOnly(db, u) == [db EXCEPT !.users = @ \ {u}]

\* db.delete(user): the row and its rows of user_role.
DeleteUserRow(db, u) ==
    [db EXCEPT !.users = @ \ {u}, !.user_role = {x \in @ : x[1] # u}]

\* [role.name.lower() for role in current_user.roles] contains "admin"
is_admin(db, current_user) ==
    "admin" \in {Slugify(n) : n \in RoleNamesOf(db, current_user)}

\* DELETE /users/{user_id}
delete_user(db, current_user, user_id) ==
    IF user_id \notin db.users
    THEN [db |-> db, status |-> 404, detail |-> "User not found"]
    ELSE IF ~is_admin(db, current_user)
    THEN [db |-> db, status |-> 403, detail |-> "Admin role required to delete users"]
    ELSE [db |-> DeleteUserRow(db, user_id), status |-> 200,
          detail |-> "User deleted successfully"]

RECURSIVE DeleteEachUser(_, _, _, _, _)
DeleteEachUser(db, current_user, ids, success_count, failed_count) ==
    IF ids = <<>>
    THEN [db |-> db, success_count |-> success_count, failed_count |-> failed_count]
    ELSE IF Head(ids) \in db.users /\ Head(ids) # current_user
    THEN DeleteEachUser(DeleteUserRow(db, Head(ids)), current_user, Tail(ids),
                        success_count + 1, failed_count)
    ELSE DeleteEachUser(db, current_user, Tail(ids), success_count, failed_count + 1)

\* DELETE /users/bulk
bulk_delete_users(db, current_user, user_ids) ==
    LET done == DeleteEachUser(db, current_user, user_ids, 0, 0)
    IN [db |-> done.db, status |-> 200, detail |-> "ok",
        success_count |-> done.success_count, failed_count |-> done.failed_count]

\* ---- the state machine ----------------------------------------------------
\* The seeded database: the administrator holding the role Admin, which
\* grants the permission admin-all.
Init ==
    /\ users = {1}
    /\ roles = (1 :> [name |-> "Admin", slug |-> "admin"])
    /\ permissions = (1 :> "admin-all")
    /\ user_role = {<<1, 1>>}
    /\ role_permissions = {<<1, 1>>}
    /\ user_role_rows = RowsOf(user_role, UserIds \X RoleIds)
    /\ role_permission_rows = RowsOf(role_permissions, RoleIds \X PermIds)
    /\ inflight = EmptyBag
    /\ user_name = <<>>
    /\ user_email = <<>>
    /\ NoResources
    /\ NoTokens
    /\ NoRevisions

\* The request's transaction commits the handler's database.
Commit(res) ==
    /\ users' = res.db.users
    /\ roles' = res.db.roles
    /\ permissions' = res.db.permissions
    /\ user_role' = res.db.user_role
    /\ role_permissions' = res.db.role_permissions
    /\ user_role_rows' = RowsOf(res.db.user_role, UserIds \X RoleIds)
    /\ role_permission_rows' =
           RowsOf(res.db.role_permissions, RoleIds \X PermIds)
    /\ UNCHANGED <<inflight, ProfileVars, ResourceVars, AuthVars,
                   RevisionVars>>

\* Every endpoint depends on get_current_user: some existing user is the
\* caller (Authenticated); the caller is named where the handler uses it.
Authenticated == users # {}

CreateRole ==
    Authenticated /\ \E name \in RoleNames, slug \in RoleSlugInputs \cup {None},
       id \in RoleIds \ DOMAIN roles :
        Commit(create_role(DB, name, slug, id))

UpdateRole ==
    Authenticated /\ \E r \in RoleIds, name \in RoleNames \cup {None},
       slug \in RoleSlugInputs \cup {None} :
        Commit(update_role(DB, r, name, slug))

DeleteRole ==
    Authenticated /\ \E r \in RoleIds :
        Commit(delete_role(DB, r))

AssignRoleToUser ==
    Authenticated /\ \E u \in UserIds, r \in RoleIds :
        Commit(assign_role_to_user(DB, u, r))

UnassignRoleFromUser ==
    Authenticated /\ \E u \in UserIds, r \in RoleIds :
        Commit(unassign_role_from_user(DB, u, r))

BulkAssignRole ==
    Authenticated /\ \E r \in RoleIds, ids \in SeqsUpTo(UserIds, MaxBulk) :
        Commit(bulk_assign_role(DB, r, ids))

BulkAssignRolesAlt ==
    Authenticated /\ \E r \in RoleIds, ids \in SeqsUpTo(UserIds, MaxBulk) :
        Commit(bulk_assign_roles_alt(DB, r, ids))

BulkUnassignRolesAlt ==
    Authenticated /\ \E r \in RoleIds, ids \in SeqsUpTo(UserIds, MaxBulk) :
        Commit(bulk_unassign_roles_alt(DB, r, ids))

CreatePermission ==
    \E cu \in users, slug \in PermSlugs, id \in PermIds \ DOMAIN permissions :
        Commit(require_role("Admin", DB, cu, create_permission(DB, slug, id)))

UpdatePermission ==
    \E cu \in users, p \in PermIds, slug \in PermSlugs \cup {None} :
        Commit(require_role("Admin", DB, cu, update_permission(DB, p, slug)))

DeletePermission ==
    \E cu \in users, p \in PermIds :
        Commit(require_role("Admin", DB, cu, delete_permission(DB, p)))

BulkDeletePermissions ==
    \E cu \in users, ids \in SeqsUpTo(PermIds, MaxBulk) :
        Commit(require_role("Admin", DB, cu, bulk_delete_permissions(DB, ids)))

AssignPermissionsToRole ==
    Authenticated /\ \E r \in RoleIds, slugs \in SeqsUpTo(PermSlugs, MaxSlugs) :
        Commit(assign_permissions_to_role(DB, r, slugs))

UnassignPermissionsFromRole ==
    Authenticated /\ \E r \in RoleIds, slugs \in SeqsUpTo(PermSlugs, MaxSlugs) :
        Commit(unassign_permissions_from_role(DB, r, slugs))

CreateUser ==
    Authenticated /\ \E id \in UserIds \ users :
        Commit(create_user(DB, id))

DeleteUser ==
    \E cu \in users, u \in UserIds :
        Commit(delete_user(DB, cu, u))

BulkDeleteUsers ==
    \E cu \in users, ids \in SeqsUpTo(UserIds, MaxBulk) :
        Commit(bulk_delete_users(DB, cu, ids))

Next ==
    \/ CreateRole
    \/ UpdateRole
    \/ DeleteRole
    \/ AssignRoleToUser
    \/ UnassignRoleFromUser
    \/ BulkAssignRole
    \/ BulkAssignRolesAlt
    \/ BulkUnassignRolesAlt
    \/ CreatePermission
    \/ UpdatePermission
    \/ DeletePermission
    \/ BulkDeletePermissions
    \/ AssignPermissionsToRole
    \/ UnassignPermissionsFromRole
    \/ CreateUser
    \/ DeleteUser
    \/ BulkDeleteUsers

Spec == Init /\ [][Next]_vars

TypeOK ==
    /\ users \subseteq UserIds
    /\ DOMAIN roles \subseteq RoleIds
    /\ DOMAIN permissions \subseteq PermIds
    /\ user_role \subseteq UserIds \X RoleIds
    /\ role_permissions \subseteq RoleIds \X PermIds
    /\ user_role = LoadedPairs(user_role_rows)
    /\ role_permissions = LoadedPairs(role_permission_rows)

\* ---- names and slugs -------------------------------------------------------
\* The requests that write a role's name or slug or a permission's slug,
\* with the empty string among the values an update may carry (RoleUpdate
\* has no validator on name, and its slug validator passes "" through).
UpdateRoleAnyValue ==
    Authenticated /\ \E r \in RoleIds, name \in RoleNames \cup {None, ""},
       slug \in RoleSlugInputs \cup {None, ""} :
        Commit(update_role(DB, r, name, slug))

NextNames ==
    \/ CreateRole
    \/ UpdateRoleAnyValue
    \/ CreatePermission
    \/ UpdatePermission

SpecNames == Init /\ [][NextNames]_vars

\* ---- user records ----------------------------------------------------------
UserNames == {"Ann", "Bob"}
Emails == {"a@x.com", "A@x.com", "b@x.com", "B@x.com", "c@x.com", "C@x.com"}

\* SQL lower() / func.lower on the e-mail addresses the model uses.
Lower(e) == CASE e = "A@x.com" -> "a@x.com"
              [] e = "B@x.com" -> "b@x.com"
              [] e = "C@x.com" -> "c@x.com"
              [] OTHER -> e

\* The database with the columns users.name and users.email.
UDB == [users |-> users, roles |-> roles, permissions |-> permissions,
        user_role |-> user_role, role_permissions |-> role_permissions,
        name |-> user_name, email |-> user_email]

\* db.query(User).filter(func.lower(User.email) == func.lower(email)): the
\* ids of the matching rows.
UsersByEmail(db, email) ==
    {u \in db.users : Lower(db.email[u]) = Lower(email)}

\* .first() of a query: the first matching row in primary-key order, or 0.
First(ids) == IF ids = {} THEN 0 ELSE CHOOSE x \in ids : \A y \in ids : x <= y

\* Variant: the e-mail addresses are compared as they are written.
create_user_record_exact(db, name, email, new_id) ==
    IF \E u \in db.users : db.email[u] = email
    THEN [db |-> db, status |-> 400, detail |-> "Email already registered"]
    ELSE [db |-> [db EXCEPT !.users = @ \cup {new_id},
                            !.name = (new_id :> name) @@ @,
                            !.email = (new_id :> email) @@ @],
          status |-> 201, detail |-> "created"]

\* POST /users/ with the record's name and email.
create_user_record(db, name, email, new_id) ==
    IF First(UsersByEmail(db, email)) # 0
    THEN [db |-> db, status |-> 400, detail |-> "Email already registered"]
    ELSE [db |-> [db EXCEPT !.users = @ \cup {new_id},
                            !.name = (new_id :> name) @@ @,
                            !.email = (new_id :> email) @@ @],
          status |-> 201, detail |-> "created"]

\* Variant: one session serves every request, and the changes a failed
\* request left in it stay for the next request to see and commit.
get_db_shared(db, session, committed) == session

\* The request-scoped session: the store the next request sees is the
\* session's if the request committed, and the store as it was if the
\* request ended without db.commit() (the transaction is abandoned).
get_db(db, session, committed) == IF committed THEN session ELSE db

\* PUT /users/{user_id} ; a field equal to None is not in the request.  The
\* name is assigned to the loaded object before the e-mail check; a request
\* that raises never reaches db.commit().
update_user(db, current_user, user_id, name, email) ==
    IF user_id \notin db.users
    THEN [db |-> db, status |-> 404, detail |-> "User not found"]
    ELSE IF ~is_admin(db, current_user) /\ current_user # user_id
    THEN [db |-> db, status |-> 403, detail |-> "Cannot update other users"]
    ELSE LET named == IF name # None
                      THEN [db EXCEPT !.name[user_id] = name] ELSE db
             existing_user == First(UsersByEmail(named, email))
         IN IF email # None /\ existing_user # 0 /\ existing_user # user_id
            THEN [db |-> get_db(db, named, FALSE), status |-> 400,
                  detail |-> "Email already registered"]
            ELSE [db |-> get_db(db, IF email # None
                                    THEN [named EXCEPT !.email[user_id] = email]
                                    ELSE named, TRUE),
                  status |-> 200, detail |-> "updated"]

\* PUT /users/profile ; fields whose value is false are skipped.
update_user_profile(db, current_user, name, email) ==
    LET named == IF Truthy(name)
                 THEN [db EXCEPT !.name[current_user] = name] ELSE db
    IN IF Truthy(email) /\ UsersByEmail(named, email) \ {current_user} # {}
       THEN [db |-> get_db(db, named, FALSE), status |-> 400,
             detail |-> "Email already registered"]
       ELSE [db |-> get_db(db, IF Truthy(email)
                               THEN [named EXCEPT !.email[current_user] = email]
                               ELSE named, TRUE),
             status |-> 200, detail |-> "updated"]

\* The seeded administrator's record.
InitUsers ==
    /\ users = {1}
    /\ roles = (1 :> [name |-> "Admin", slug |-> "admin"])
    /\ permissions = (1 :> "admin-all")
    /\ user_role = {<<1, 1>>}
    /\ role_permissions = {<<1, 1>>}
    /\ user_role_rows = RowsOf(user_role, UserIds \X RoleIds)
    /\ role_permission_rows = RowsOf(role_permissions, RoleIds \X PermIds)
    /\ inflight = EmptyBag
    /\ user_name = (1 :> "Ann")
    /\ user_email = (1 :> "a@x.com")
    /\ NoResources
    /\ NoTokens
    /\ NoRevisions

\* The request's transaction commits the handler's database; the columns of
\* a deleted user go with its row.
CommitUsers(res) ==
    /\ users' = res.db.users
    /\ user_role' = res.db.user_role
    /\ user_role_rows' = RowsOf(res.db.user_role, UserIds \X RoleIds)
    /\ user_name' = [u \in res.db.users |-> res.db.name[u]]
    /\ user_email' = [u \in res.db.users |-> res.db.email[u]]
    /\ UNCHANGED <<roles, permissions, role_permissions,
                   role_permission_rows, inflight, ResourceVars, AuthVars,
                   RevisionVars>>

CreateUserRecord ==
    Authenticated /\ \E name \in UserNames, email \in Emails,
       id \in UserIds \ users :
        CommitUsers(create_user_record(UDB, name, email, id))

UpdateUser ==
    \E cu \in users, user_id \in UserIds, name \in UserNames \cup {None},
       email \in Emails \cup {None} :
        CommitUsers(update_user(UDB, cu, user_id, name, email))

UpdateUserProfile ==
    \E cu \in users, name \in UserNames \cup {None, ""},
       email \in Emails \cup {None, ""} :
        CommitUsers(update_user_profile(UDB, cu, name, email))

DeleteUserRecord ==
    \E cu \in users, u \in UserIds : CommitUsers(delete_user(UDB, cu, u))

BulkDeleteUserRecords ==
    \E cu \in users, ids \in SeqsUpTo(UserIds, MaxBulk) :
        CommitUsers(bulk_delete_users(UDB, cu, ids))

NextUsers ==
    \/ CreateUserRecord
    \/ UpdateUser
    \/ UpdateUserProfile
    \/ DeleteUserRecord
    \/ BulkDeleteUserRecords

SpecUsers == InitUsers /\ [][NextUsers]_vars

\* ---- categories, documents and notifications -------------------------------
CategoryIds == 1..MaxCategories
DocumentIds == 1..MaxDocuments
NotificationIds == 1..MaxNotifications
CategoryNames == {"Policies", "Manuals"}
DocumentCodes == {"DOC-001", "DOC-002"}

\* Python's None for an optional integer field (the integers a request can
\* carry are 0 and the ids, which start at 1).
NoId == -1

\* Python's truth value of an optional integer: None and 0 are false.
TruthyId(v) == v # NoId /\ v # 0

\* The user ids a request may name: those the table can hold and one that
\* no user has.
RequestUserIds == 1..(MaxUsers + 1)

\* The database with the tables of the three resources.
RDB == [users |-> users, roles |-> roles, permissions |-> permissions,
        user_role |-> user_role, role_permissions |-> role_permissions,
        categories |-> categories, documents |-> documents,
        notifications |-> notifications,
        revisions |-> revisions, histories |-> histories]

\* A function without the entry for key k.
Without(f, k) == [x \in DOMAIN f \ {k} |-> f[x]]

\* POST /categories/
create_category(db, current_user, name, new_id) ==
    IF \E c \in DOMAIN db.categories : db.categories[c] = name
    THEN [db |-> db, status |-> 400, detail |-> "Category name already exists"]
    ELSE [db |-> [db EXCEPT !.categories = (new_id :> name) @@ @],
          status |-> 201, detail |-> "created"]

\* PUT /categories/{category_id} ; name = None when the request does not
\* set it.
update_category(db, current_user, category_id, name) ==
    IF category_id \notin DOMAIN db.categories
    THEN [db |-> db, status |-> 404, detail |-> "Category not found"]
    ELSE IF Truthy(name) /\ \E c \in DOMAIN db.categories :
                                db.categories[c] = name /\ c # category_id
    THEN [db |-> db, status |-> 400, detail |-> "Category name already exists"]
    ELSE [db |-> IF name # None
                 THEN [db EXCEPT !.categories[category_id] = name] ELSE db,
          status |-> 200, detail |-> "updated"]

\* DELETE /categories/{category_id}
delete_category(db, current_user, category_id) ==
    IF category_id \notin DOMAIN db.categories
    THEN [db |-> db, status |-> 404, detail |-> "Category not found"]
    ELSE IF Cardinality({d \in DOMAIN db.documents :
                            db.documents[d].category_id = category_id}) > 0
    THEN [db |-> db, status |-> 400, detail |-> "Cannot delete category"]
    ELSE [db |-> [db EXCEPT !.categories = Without(@, category_id)],
          status |-> 200, detail |-> "Category deleted successfully"]

\* POST /documents/ ; category_id = NoId when the request names none.
create_document(db, current_user, code, category_id, new_id) ==
    IF \E d \in DOMAIN db.documents : db.documents[d].code = code
    THEN [db |-> db, status |-> 400, detail |-> "Document code already exists"]
    ELSE IF TruthyId(category_id) /\ category_id \notin DOMAIN db.categories
    THEN [db |-> db, status |-> 400, detail |-> "Category not found"]
    ELSE [db |-> [db EXCEPT !.documents =
                    (new_id :> [code |-> code, category_id |-> category_id,
                                uploaded_by |-> current_user]) @@ @],
          status |-> 201, detail |-> "created"]

\* A table without the rows whose column col holds v.
WithoutRowsOf(table, col, v) ==
    [x \in {y \in DOMAIN table : table[y][col] # v} |-> table[x]]

\* DELETE /documents/{document_id} ; the relationships revisions and history
\* of Document cascade "all, delete-orphan".
delete_document(db, current_user, document_id) ==
    IF document_id \notin DOMAIN db.documents
    THEN [db |-> db, status |-> 404, detail |-> "Document not found"]
    ELSE [db |-> [db EXCEPT
                    !.documents = Without(@, document_id),
                    !.revisions = WithoutRowsOf(@, "document_id", document_id),
                    !.histories = WithoutRowsOf(@, "document_id", document_id)],
          status |-> 200, detail |-> "Document deleted successfully"]

\* POST /notifications/ ; new_id is the notification's uuid.
create_notification(db, current_user, notifiable_id, new_id) ==
    IF notifiable_id \notin db.users
    THEN [db |-> db, status |-> 404, detail |-> "Target user not found"]
    ELSE [db |-> [db EXCEPT !.notifications =
                    (new_id :> [notifiable_id |-> notifiable_id,
                                read_at |-> None]) @@ @],
          status |-> 200, detail |-> "created"]

\* Notification ids not in use, lowest first (uuid4 yields unused ids).
UnusedNotificationIds(db) ==
    SortedSeq(NotificationIds \ DOMAIN db.notifications)

\* for user_id in user_ids: an unknown user is counted as failed, for a
\* known one a notification is added.
RECURSIVE AddEachNotification(_, _, _, _, _)
AddEachNotification(db, user_ids, new_ids, success_count, failed_count) ==
    IF user_ids = <<>>
    THEN [db |-> db, success_count |-> success_count,
          failed_count |-> failed_count]
    ELSE IF Head(user_ids) \notin db.users
    THEN AddEachNotification(db, Tail(user_ids), new_ids,
                             success_count, failed_count + 1)
    ELSE AddEachNotification(
             [db EXCEPT !.notifications =
                 (Head(new_ids) :> [notifiable_id |-> Head(user_ids),
                                    read_at |-> None]) @@ @],
             Tail(user_ids), Tail(new_ids), success_count + 1, failed_count)

\* BulkNotificationSend.validate_user_ids: duplicates removed, order kept.
validate_user_ids(v) == UniqueSlugs(v, <<>>)

\* POST /notifications/send/bulk ; commit_ok is the outcome of db.commit().
send_bulk_notification(db, current_user, user_ids_in, commit_ok) ==
    LET user_ids == validate_user_ids(user_ids_in)
        done == AddEachNotification(db, user_ids, UnusedNotificationIds(db),
                                    0, 0)
    IN IF commit_ok
       THEN [db |-> done.db, status |-> 200,
             detail |-> "Bulk notification send completed",
             success_count |-> done.success_count,
             failed_count |-> done.failed_count,
             total_requested |-> Len(user_ids)]
       ELSE [db |-> db, status |-> 200,
             detail |-> "Bulk notification send failed",
             success_count |-> 0, failed_count |-> Len(user_ids),
             total_requested |-> Len(user_ids)]

\* The seeded administrator and a regular user who holds no role.
InitResources ==
    /\ users = {1, 2}
    /\ roles = (1 :> [name |-> "Admin", slug |-> "admin"])
    /\ permissions = (1 :> "admin-all")
    /\ user_role = {<<1, 1>>}
    /\ role_permissions = {<<1, 1>>}
    /\ user_role_rows = RowsOf(user_role, UserIds \X RoleIds)
    /\ role_permission_rows = RowsOf(role_permissions, RoleIds \X PermIds)
    /\ inflight = EmptyBag
    /\ user_name = <<>>
    /\ user_email = <<>>
    /\ NoResources
    /\ NoTokens
    /\ NoRevisions

CommitResources(res) ==
    /\ categories' = res.db.categories
    /\ documents' = res.db.documents
    /\ notifications' = res.db.notifications
    /\ revisions' = res.db.revisions
    /\ histories' = res.db.histories
    /\ UNCHANGED <<users, roles, permissions, user_role, role_permissions,
                   ConcurrentVars, ProfileVars, AuthVars, foreign_keys>>

CreateCategory ==
    \E cu \in users, name \in CategoryNames,
       id \in CategoryIds \ DOMAIN categories :
        CommitResources(create_category(RDB, cu, name, id))

UpdateCategory ==
    \E cu \in users, id \in CategoryIds, name \in CategoryNames \cup {None} :
        CommitResources(update_category(RDB, cu, id, name))

DeleteCategory ==
    \E cu \in users, id \in CategoryIds :
        CommitResources(delete_category(RDB, cu, id))

CreateDocument ==
    \E cu \in users, code \in DocumentCodes,
       category_id \in CategoryIds \cup {NoId},
       id \in DocumentIds \ DOMAIN documents :
        CommitResources(create_document(RDB, cu, code, category_id, id))

DeleteDocument ==
    \E cu \in users, id \in DocumentIds :
        CommitResources(delete_document(RDB, cu, id))

CreateNotification ==
    \E cu \in users, notifiable_id \in RequestUserIds,
       id \in NotificationIds \ DOMAIN notifications :
        CommitResources(create_notification(RDB, cu, notifiable_id, id))

\* The bound on notification ids leaves room for the request's rows.
SendBulkNotification ==
    \E cu \in users, user_ids \in SeqsUpTo(RequestUserIds, MaxBulk),
       commit_ok \in BOOLEAN :
        /\ Len(user_ids) <= Len(UnusedNotificationIds(RDB))
        /\ CommitResources(send_bulk_notification(RDB, cu, user_ids, commit_ok))

NextResources ==
    \/ CreateCategory
    \/ UpdateCategory
    \/ DeleteCategory
    \/ CreateDocument
    \/ DeleteDocument
    \/ CreateNotification
    \/ SendBulkNotification

SpecResources == InitResources /\ [][NextResources]_vars

\* ---- concurrent requests on the junction tables --------------------------
\* Requests run in their own sessions: a handler reads the tables, decides
\* and queues its INSERTs, and the INSERTs reach the table at db.commit().
\* Other requests may commit in between.

\* The database with the users, roles and permissions the requests refer to.
InitConcurrent ==
    /\ users = {1, 2}
    /\ roles = (1 :> [name |-> "Admin", slug |-> "admin"]
                @@ 2 :> [name |-> "Editor", slug |-> "editor"])
    /\ permissions = (1 :> "admin-all" @@ 2 :> "documents.create")
    /\ user_role = {<<1, 1>>}
    /\ role_permissions = {<<1, 1>>}
    /\ user_role_rows = RowsOf(user_role, UserIds \X RoleIds)
    /\ role_permission_rows = RowsOf(role_permissions, RoleIds \X PermIds)
    /\ inflight = EmptyBag
    /\ user_name = <<>>
    /\ user_email = <<>>
    /\ NoResources
    /\ NoTokens
    /\ NoRevisions

\* INSERT of `rows` in one flush.  Both junction tables declare the pair as
\* their primary key (primary_key=True on both columns): a row whose pair is
\* already stored raises IntegrityError and the flush inserts nothing.
InsertRowsNoKey(stored, rows) ==
    [ok |-> TRUE,
     rows |-> [x \in DOMAIN stored |->
                  IF x \in rows THEN stored[x] + 1 ELSE stored[x]]]

InsertRows(stored, rows) ==
    IF \E x \in rows : stored[x] > 0
    THEN [ok |-> FALSE, rows |-> stored]
    ELSE [ok |-> TRUE,
          rows |-> [x \in DOMAIN stored |->
                       IF x \in rows THEN stored[x] + 1 ELSE stored[x]]]

\* The INSERTs a handler has queued when it reaches db.commit(): the pairs
\* it appended to a relationship collection.
PendingInserts(res) ==
    IF res.db.user_role # user_role
    THEN [table |-> "user_role", rows |-> res.db.user_role \ user_role]
    ELSE [table |-> "role_permissions",
          rows |-> res.db.role_permissions \ role_permissions]

\* A handler runs up to its db.commit(); a handler that raised or appended
\* nothing has nothing to commit.
RunToCommit(res) ==
    /\ BagCardinality(inflight) < MaxRequests
    /\ res.status < 400
    /\ res.db # DB
    /\ inflight' = inflight (+) SetToBag({PendingInserts(res)})
    /\ UNCHANGED <<users, roles, permissions, user_role, role_permissions,
                   user_role_rows, role_permission_rows, ProfileVars,
                   ResourceVars, AuthVars,
                   RevisionVars>>

ReadAssignRoleToUser ==
    \E user_id \in UserIds, role_id \in RoleIds :
        RunToCommit(assign_role_to_user(DB, user_id, role_id))

ReadBulkAssignRole ==
    \E role_id \in RoleIds, user_ids \in SeqsUpTo(UserIds, MaxBulk) :
        RunToCommit(bulk_assign_role(DB, role_id, user_ids))

ReadBulkAssignRolesAlt ==
    \E role_id \in RoleIds, user_ids \in SeqsUpTo(UserIds, MaxBulk) :
        RunToCommit(bulk_assign_roles_alt(DB, role_id, user_ids))

ReadAssignPermissionsToRole ==
    \E role_id \in RoleIds, slugs \in SeqsUpTo(PermSlugs, MaxSlugs) :
        RunToCommit(assign_permissions_to_role(DB, role_id, slugs))

\* db.commit() of a request in flight: its INSERTs are flushed; on
\* IntegrityError the request fails and its transaction is rolled back.
CommitRequest ==
    \E req \in BagToSet(inflight) :
        LET ur == IF req.table = "user_role"
                  THEN InsertRows(user_role_rows, req.rows)
                  ELSE [ok |-> TRUE, rows |-> user_role_rows]
            rp == IF req.table = "role_permissions"
                  THEN InsertRows(role_permission_rows, req.rows)
                  ELSE [ok |-> TRUE, rows |-> role_permission_rows]
        IN /\ inflight' = inflight (-) SetToBag({req})
           /\ user_role_rows' = ur.rows
           /\ role_permission_rows' = rp.rows
           /\ user_role' = LoadedPairs(ur.rows)
           /\ role_permissions' = LoadedPairs(rp.rows)
           /\ UNCHANGED <<users, roles, permissions, ProfileVars,
                          ResourceVars, AuthVars,
                   RevisionVars>>

NextConcurrent ==
    \/ ReadAssignRoleToUser
    \/ ReadBulkAssignRole
    \/ ReadBulkAssignRolesAlt
    \/ ReadAssignPermissionsToRole
    \/ CommitRequest

SpecConcurrent == InitConcurrent /\ [][NextConcurrent]_vars

\* ---- bearer tokens (app/core/auth.py, app/api/v1/endpoints/auth.py) --------
MaxTime == 3
MaxTokens == 2

\* ACCESS_TOKEN_EXPIRE_MINUTES, in ticks of the clock.
ACCESS_TOKEN_EXPIRE_MINUTES == 2

ExpiryTimes == 0..(MaxTime + ACCESS_TOKEN_EXPIRE_MINUTES)

\* The subject claim of a payload: absent, a string that int() rejects, or
\* the decimal string of an integer (sub then holds the integer).
SubKinds == {"absent", "text", "digits"}

\* A bearer token: whether it has the three-part JWT form, the key its
\* signature was made with, and its payload (sub_kind, sub, exp).
Token(wellformed, key, sub_kind, sub, exp) ==
    [wellformed |-> wellformed, key |-> key, sub_kind |-> sub_kind,
     sub |-> sub, exp |-> exp]

\* create_access_token(data = {"sub": str(user.id), ...}, expires_delta)
create_access_token(user_id, clock) ==
    Token(TRUE, "SECRET_KEY", "digits", user_id,
          clock + ACCESS_TOKEN_EXPIRE_MINUTES)

\* The tokens a client can send: those the server issued, and the forged or
\* damaged ones (not a JWT, signed with another key, no sub, a sub that is
\* not a number).
ForgedTokens ==
    {Token(FALSE, "SECRET_KEY", "digits", 1, MaxTime + 1)}
    \cup {Token(TRUE, "other", "digits", u, MaxTime + 1) : u \in UserIds}
    \cup {Token(TRUE, "SECRET_KEY", k, 1, MaxTime + 1) : k \in {"absent", "text"}}

\* The Authorization header: absent, of another scheme, or Bearer <token>.
Credentials(scheme, token) == [scheme |-> scheme, token |-> token]

NoToken == Token(FALSE, "none", "absent", 0, 0)

RequestCredentials ==
    {Credentials("none", NoToken), Credentials("Basic", NoToken)}
    \cup {Credentials("Bearer", t) : t \in tokens \cup ForgedTokens}

\* The status HTTPBearer() answers when the header is absent or of another
\* scheme: 403 in the FastAPI releases test_logout_unauthorized was written
\* for, 401 in those test_refresh_token_unauthorized was written for.
NotAuthenticatedStatuses == {401, 403}

\* jwt.decode(token, SECRET_KEY, algorithms = [ALGORITHM]) raises for a token
\* that is not a JWT, has another signature, or whose exp has passed.
jwt_decode_raises(token, clock) ==
    \/ ~token.wellformed
    \/ token.key # "SECRET_KEY"
    \/ token.exp <= clock

\* verify_token: the payload with sub as an integer, or None (0).
verify_token(token, clock) ==
    IF jwt_decode_raises(token, clock) THEN NoId
    ELSE IF token.sub_kind = "absent" THEN NoId
    ELSE IF token.sub_kind = "text" THEN NoId
    ELSE token.sub

\* Depends(security) and get_current_user: the user the request acts as, or
\* the status of the rejection.
get_current_user(db, clock, credentials, not_authenticated) ==
    IF credentials.scheme # "Bearer"
    THEN [status |-> not_authenticated, user |-> NoId]
    ELSE LET user_id == verify_token(credentials.token, clock)
         IN IF user_id = NoId
            THEN [status |-> 401, user |-> NoId]
            ELSE IF user_id \notin db.users
            THEN [status |-> 401, user |-> NoId]
            ELSE [status |-> 200, user |-> user_id]

\* POST /auth/login, with the user the ilike query finds (0 for none) and
\* the outcome of verify_password.
login(db, clock, user, password_ok) ==
    IF user = NoId \/ user \notin db.users
    THEN [db |-> db, status |-> 401, issued |-> {}]
    ELSE IF ~password_ok
    THEN [db |-> db, status |-> 401, issued |-> {}]
    ELSE [db |-> db, status |-> 200,
          issued |-> {create_access_token(user, clock)}]

\* POST /auth/refresh
refresh_token(db, clock, credentials, not_authenticated) ==
    LET auth == get_current_user(db, clock, credentials, not_authenticated)
    IN IF auth.status # 200
       THEN [db |-> db, status |-> auth.status, issued |-> {}]
       ELSE [db |-> db, status |-> 200,
             issued |-> {create_access_token(auth.user, clock)}]

\* POST /auth/logout
logout(db, clock, credentials, not_authenticated) ==
    LET auth == get_current_user(db, clock, credentials, not_authenticated)
    IN IF auth.status # 200
       THEN [db |-> db, status |-> auth.status, issued |-> {}]
       ELSE [db |-> db, status |-> 200, issued |-> {}]

\* DELETE /users/{user_id} behind Depends(get_current_user)
delete_user_request(db, clock, credentials, not_authenticated, user_id) ==
    LET auth == get_current_user(db, clock, credentials, not_authenticated)
    IN IF auth.status # 200
       THEN [db |-> db, status |-> auth.status, issued |-> {}]
       ELSE LET res == delete_user(db, auth.user, user_id)
            IN [db |-> res.db, status |-> res.status, issued |-> {}]

\* POST /users/ behind Depends(get_current_user) (the email is new).
create_user_request(db, clock, credentials, not_authenticated, new_id) ==
    LET auth == get_current_user(db, clock, credentials, not_authenticated)
    IN IF auth.status # 200
       THEN [db |-> db, status |-> auth.status, issued |-> {}]
       ELSE LET res == create_user(db, new_id)
            IN [db |-> res.db, status |-> res.status, issued |-> {}]

\* Two users, the first holding the role Admin; no token issued yet.
InitAuth ==
    /\ users = UserIds
    /\ roles = (1 :> [name |-> "Admin", slug |-> "admin"])
    /\ permissions = <<>>
    /\ user_role = {<<1, 1>>}
    /\ role_permissions = {}
    /\ user_role_rows = RowsOf(user_role, UserIds \X RoleIds)
    /\ role_permission_rows = RowsOf(role_permissions, RoleIds \X PermIds)
    /\ inflight = EmptyBag
    /\ user_name = <<>>
    /\ user_email = <<>>
    /\ NoResources
    /\ NoRevisions
    /\ tokens = {}
    /\ now = 0

\* The request's transaction commits, and the client keeps the token the
\* response carries (dropping its oldest one when it holds MaxTokens).
CommitAuth(res) ==
    /\ users' = res.db.users
    /\ user_role' = res.db.user_role
    /\ user_role_rows' = RowsOf(res.db.user_role, UserIds \X RoleIds)
    /\ \/ /\ Cardinality(tokens \cup res.issued) <= MaxTokens
          /\ tokens' = tokens \cup res.issued
       \/ /\ Cardinality(tokens \cup res.issued) > MaxTokens
          /\ \E old \in tokens :
                /\ \A t \in tokens : old.exp <= t.exp
                /\ tokens' = (tokens \ {old}) \cup res.issued
    /\ UNCHANGED <<roles, permissions, role_permissions, role_permission_rows,
                   inflight, ProfileVars, ResourceVars, RevisionVars, now>>

Login ==
    \E user \in UserIds \cup {NoId}, password_ok \in BOOLEAN :
        CommitAuth(login(DB, now, user, password_ok))

RefreshToken ==
    \E credentials \in RequestCredentials, s \in NotAuthenticatedStatuses :
        CommitAuth(refresh_token(DB, now, credentials, s))

Logout ==
    \E credentials \in RequestCredentials, s \in NotAuthenticatedStatuses :
        CommitAuth(logout(DB, now, credentials, s))

DeleteUserRequest ==
    \E credentials \in RequestCredentials, s \in NotAuthenticatedStatuses,
       user_id \in UserIds :
        CommitAuth(delete_user_request(DB, now, credentials, s, user_id))

CreateUserRequest ==
    \E credentials \in RequestCredentials, s \in NotAuthenticatedStatuses,
       new_id \in UserIds \ users :
        CommitAuth(create_user_request(DB, now, credentials, s, new_id))

\* Time passes.
Tick ==
    /\ now < MaxTime
    /\ now' = now + 1
    /\ UNCHANGED <<users, roles, permissions, user_role, role_permissions,
                   ConcurrentVars, ProfileVars, ResourceVars, RevisionVars,
                   tokens>>

NextAuth ==
    \/ Login
    \/ RefreshToken
    \/ Logout
    \/ DeleteUserRequest
    \/ CreateUserRequest
    \/ Tick

SpecAuth == InitAuth /\ [][NextAuth]_vars

\* ---- a user's notifications (app/api/v1/endpoints/notification.py) --------
\* datetime.utcnow() as the value of read_at.
ReadAt == "datetime"

\* The path segment "bulk" taken as a notification id: no uuid equals it.
BulkSegment == 0

\* GET /notifications/{notification_id} ; body is the notification returned.
get_notification(db, current_user, notification_id) ==
    IF notification_id \notin DOMAIN db.notifications
    THEN [db |-> db, status |-> 404, body |-> {}]
    ELSE IF db.notifications[notification_id].notifiable_id # current_user
    THEN [db |-> db, status |-> 403, body |-> {}]
    ELSE [db |-> db, status |-> 200, body |-> {notification_id}]

\* GET /notifications/users/{user_id} ; body holds the notifications listed.
get_user_notifications(db, current_user, user_id) ==
    IF user_id \notin db.users
    THEN [db |-> db, status |-> 404, body |-> {}]
    ELSE [db |-> db, status |-> 200,
          body |-> {n \in DOMAIN db.notifications :
                       db.notifications[n].notifiable_id = user_id}]

\* Notification.mark_as_read / mark_as_unread
mark_as(notification, is_read) ==
    IF is_read
    THEN IF notification.read_at = None
         THEN [notification EXCEPT !.read_at = ReadAt] ELSE notification
    ELSE [notification EXCEPT !.read_at = None]

\* PUT /notifications/{notification_id}/read
mark_notification_read(db, current_user, notification_id, is_read) ==
    IF notification_id \notin DOMAIN db.notifications
    THEN [db |-> db, status |-> 404, body |-> {}]
    ELSE IF db.notifications[notification_id].notifiable_id # current_user
    THEN [db |-> db, status |-> 403, body |-> {}]
    ELSE [db |-> [db EXCEPT !.notifications[notification_id] = mark_as(@, is_read)],
          status |-> 200, body |-> {notification_id}]

\* PUT /notifications/my/mark-all-read (Notification.mark_all_read_by_user)
mark_all_notifications_read(db, current_user) ==
    [db |-> [db EXCEPT !.notifications =
                [n \in DOMAIN @ |->
                    IF @[n].notifiable_id = current_user /\ @[n].read_at = None
                    THEN [@[n] EXCEPT !.read_at = ReadAt] ELSE @[n]]],
     status |-> 200, body |-> {}]

\* DELETE /notifications/{notification_id}
delete_notification(db, current_user, notification_id) ==
    IF notification_id \notin DOMAIN db.notifications
    THEN [db |-> db, status |-> 404, body |-> {}]
    ELSE IF db.notifications[notification_id].notifiable_id # current_user
    THEN [db |-> db, status |-> 403, body |-> {}]
    ELSE [db |-> [db EXCEPT !.notifications = Without(@, notification_id)],
          status |-> 200, body |-> {}]

\* DELETE /notifications/my/read (Notification.delete_read_by_user)
delete_read_notifications(db, current_user) ==
    [db |-> [db EXCEPT !.notifications =
                [n \in {x \in DOMAIN @ : ~(@[x].notifiable_id = current_user
                                           /\ @[x].read_at # None)} |-> @[n]]],
     status |-> 200, body |-> {}]

\* validate_notification_ids: duplicates removed, order kept.
validate_notification_ids(v) == UniqueSlugs(v, <<>>)

\* for notification_id in notification_ids: the caller's own notification is
\* marked read, any other id is counted as failed.
RECURSIVE MarkEachNotification(_, _, _, _, _)
MarkEachNotification(db, current_user, ids, success_count, failed_count) ==
    IF ids = <<>>
    THEN [db |-> db, success_count |-> success_count,
          failed_count |-> failed_count]
    ELSE IF /\ Head(ids) \in DOMAIN db.notifications
            /\ db.notifications[Head(ids)].notifiable_id = current_user
    THEN MarkEachNotification(
             [db EXCEPT !.notifications[Head(ids)] = mark_as(@, TRUE)],
             current_user, Tail(ids), success_count + 1, failed_count)
    ELSE MarkEachNotification(db, current_user, Tail(ids),
                              success_count, failed_count + 1)

\* PUT /notifications/bulk/mark-read ; commit_ok is the outcome of commit.
bulk_mark_notifications_read(db, current_user, notification_ids_in, commit_ok) ==
    LET ids == validate_notification_ids(notification_ids_in)
        done == MarkEachNotification(db, current_user, ids, 0, 0)
    IN IF commit_ok
       THEN [db |-> done.db, status |-> 200, body |-> {},
             success_count |-> done.success_count,
             failed_count |-> done.failed_count]
       ELSE [db |-> db, status |-> 200, body |-> {},
             success_count |-> 0, failed_count |-> Len(ids)]

\* for notification_id in notification_ids: the caller's own notification is
\* deleted, any other id is counted as failed.
RECURSIVE DeleteEachNotification(_, _, _, _, _)
DeleteEachNotification(db, current_user, ids, success_count, failed_count) ==
    IF ids = <<>>
    THEN [db |-> db, success_count |-> success_count,
          failed_count |-> failed_count]
    ELSE IF /\ Head(ids) \in DOMAIN db.notifications
            /\ db.notifications[Head(ids)].notifiable_id = current_user
    THEN DeleteEachNotification(
             [db EXCEPT !.notifications = Without(@, Head(ids))],
             current_user, Tail(ids), success_count + 1, failed_count)
    ELSE DeleteEachNotification(db, current_user, Tail(ids),
                                success_count, failed_count + 1)

\* The handler bulk_delete_notifications.
bulk_delete_notifications(db, current_user, notification_ids_in, commit_ok) ==
    LET ids == validate_notification_ids(notification_ids_in)
        done == DeleteEachNotification(db, current_user, ids, 0, 0)
    IN IF commit_ok
       THEN [db |-> done.db, status |-> 200, body |-> {},
             success_count |-> done.success_count,
             failed_count |-> done.failed_count]
       ELSE [db |-> db, status |-> 200, body |-> {},
             success_count |-> 0, failed_count |-> Len(ids)]

\* DELETE /notifications/bulk as the router dispatches it: the route
\* "/{notification_id}" of delete_notification is registered before "/bulk"
\* and matches the path, so delete_notification runs with the id "bulk".
delete_bulk_route(db, current_user, notification_ids_in) ==
    delete_notification(db, current_user, BulkSegment)

MarkNotificationRead ==
    \E cu \in users, id \in NotificationIds, is_read \in BOOLEAN :
        CommitResources(mark_notification_read(RDB, cu, id, is_read))

MarkAllNotificationsRead ==
    \E cu \in users : CommitResources(mark_all_notifications_read(RDB, cu))

DeleteNotification ==
    \E cu \in users, id \in NotificationIds :
        CommitResources(delete_notification(RDB, cu, id))

DeleteReadNotifications ==
    \E cu \in users : CommitResources(delete_read_notifications(RDB, cu))

BulkMarkNotificationsRead ==
    \E cu \in users, ids \in SeqsUpTo(NotificationIds, MaxBulk),
       commit_ok \in BOOLEAN :
        CommitResources(bulk_mark_notifications_read(RDB, cu, ids, commit_ok))

DeleteBulkRoute ==
    \E cu \in users, ids \in SeqsUpTo(NotificationIds, MaxBulk) :
        CommitResources(delete_bulk_route(RDB, cu, ids))

NextNotifications ==
    \/ CreateNotification
    \/ MarkNotificationRead
    \/ MarkAllNotificationsRead
    \/ DeleteNotification
    \/ DeleteReadNotifications
    \/ BulkMarkNotificationsRead
    \/ DeleteBulkRoute

SpecNotifications == InitResources /\ [][NextNotifications]_vars

\* ---- documents and their categories (app/api/v1/endpoints/document.py) ----
\* The codes a request may carry: DocumentBase.code is any str.
RequestCodes == DocumentCodes \cup {""}

\* The category ids a request may carry: None, 0 and the ids of the table.
RequestCategoryIds == CategoryIds \cup {NoId, 0}

\* The FOREIGN KEY constraints of documents, document_revisions and
\* document_history (models/document.py).
ForeignKeysHold(db) ==
    /\ \A d \in DOMAIN db.documents :
          \/ db.documents[d].category_id = NoId
          \/ db.documents[d].category_id \in DOMAIN db.categories
    /\ \A r \in DOMAIN db.revisions :
          db.revisions[r].document_id \in DOMAIN db.documents
    /\ \A h \in DOMAIN db.histories :
          /\ db.histories[h].document_id \in DOMAIN db.documents
          /\ \/ db.histories[h].revision_id = NoId
             \/ db.histories[h].revision_id \in DOMAIN db.revisions

\* db.commit() of a handler's writes: a database that enforces foreign keys
\* raises IntegrityError for a write that breaks one, and nothing is stored.
commit(db, res, fk) ==
    IF fk /\ ~ForeignKeysHold(res.db)
    THEN [db |-> db, status |-> 500, detail |-> "IntegrityError"]
    ELSE res

\* PUT /documents/{document_id} ; code = None and category_id = NoId when the
\* request does not set the field.
update_document(db, current_user, document_id, code, category_id) ==
    IF document_id \notin DOMAIN db.documents
    THEN [db |-> db, status |-> 404, detail |-> "Document not found"]
    ELSE IF Truthy(code) /\ \E d \in DOMAIN db.documents :
                               db.documents[d].code = code /\ d # document_id
    THEN [db |-> db, status |-> 400, detail |-> "Document code already exists"]
    ELSE IF TruthyId(category_id) /\ category_id \notin DOMAIN db.categories
    THEN [db |-> db, status |-> 400, detail |-> "Category not found"]
    ELSE LET coded == IF code # None
                      THEN [db EXCEPT !.documents[document_id].code = code]
                      ELSE db
         IN [db |-> IF category_id # NoId
                    THEN [coded EXCEPT !.documents[document_id].category_id =
                                           category_id]
                    ELSE coded,
             status |-> 200, detail |-> "updated"]

\* The seeded administrator and a regular user; the database either enforces
\* foreign keys or does not.
InitDocuments ==
    /\ users = {1, 2}
    /\ roles = (1 :> [name |-> "Admin", slug |-> "admin"])
    /\ permissions = (1 :> "admin-all")
    /\ user_role = {<<1, 1>>}
    /\ role_permissions = {<<1, 1>>}
    /\ user_role_rows = RowsOf(user_role, UserIds \X RoleIds)
    /\ role_permission_rows = RowsOf(role_permissions, RoleIds \X PermIds)
    /\ inflight = EmptyBag
    /\ user_name = <<>>
    /\ user_email = <<>>
    /\ NoResources
    /\ NoTokens
    /\ revisions = <<>>
    /\ histories = <<>>
    /\ foreign_keys \in BOOLEAN

PostDocument ==
    \E cu \in users, code \in RequestCodes, category_id \in RequestCategoryIds,
       id \in DocumentIds \ DOMAIN documents :
        CommitResources(commit(RDB, create_document(RDB, cu, code, category_id, id),
                               foreign_keys))

PutDocument ==
    \E cu \in users, id \in DocumentIds, code \in RequestCodes \cup {None},
       category_id \in RequestCategoryIds :
        CommitResources(commit(RDB, update_document(RDB, cu, id, code, category_id),
                               foreign_keys))

NextDocuments ==
    \/ CreateCategory
    \/ UpdateCategory
    \/ DeleteCategory
    \/ PostDocument
    \/ PutDocument
    \/ DeleteDocument

SpecDocuments == InitDocuments /\ [][NextDocuments]_vars

\* ---- revisions and history (document_revision.py, document_history.py) -----
MaxRevisions == 2
MaxHistories == 1
MaxRevisionNumber == 2

RevisionIds == 1..MaxRevisions
HistoryIds == 1..MaxHistories
RevisionNumbers == 1..MaxRevisionNumber

\* RevisionStatus
RevisionStatuses == {"draft", "review", "approved", "rejected"}

\* The revision ids a request may carry: None, 0 and the ids of the table.
RequestRevisionIds == RevisionIds \cup {NoId, 0}

\* POST /document-revisions/ ; of the columns of a revision the model keeps
\* document_id, revision_number and status.
create_revision(db, current_user, document_id, revision_number, status, new_id) ==
    IF document_id \notin DOMAIN db.documents
    THEN [db |-> db, status |-> 404, detail |-> "Document not found"]
    ELSE IF \E r \in DOMAIN db.revisions :
               /\ db.revisions[r].document_id = document_id
               /\ db.revisions[r].revision_number = revision_number
    THEN [db |-> db, status |-> 400, detail |-> "Revision number already exists"]
    ELSE [db |-> [db EXCEPT !.revisions =
                    (new_id :> [document_id |-> document_id,
                                revision_number |-> revision_number,
                                status |-> status]) @@ @],
          status |-> 201, detail |-> "created"]

\* PUT /document-revisions/{revision_id} ; revision_number = NoId and
\* status = None when the request does not set the field.
update_revision(db, current_user, revision_id, revision_number, status) ==
    IF revision_id \notin DOMAIN db.revisions
    THEN [db |-> db, status |-> 404, detail |-> "Document revision not found"]
    ELSE IF revision_number # NoId /\ \E r \in DOMAIN db.revisions :
               /\ db.revisions[r].document_id = db.revisions[revision_id].document_id
               /\ db.revisions[r].revision_number = revision_number
               /\ r # revision_id
    THEN [db |-> db, status |-> 400, detail |-> "Revision number already exists"]
    ELSE LET numbered == IF revision_number # NoId
                         THEN [db EXCEPT !.revisions[revision_id].revision_number =
                                             revision_number]
                         ELSE db
         IN [db |-> IF status # None
                    THEN [numbered EXCEPT !.revisions[revision_id].status = status]
                    ELSE numbered,
             status |-> 200, detail |-> "updated"]

\* DELETE /document-revisions/{revision_id} ; the rows of document_history
\* that name the revision are not touched.
delete_revision(db, current_user, revision_id) ==
    IF revision_id \notin DOMAIN db.revisions
    THEN [db |-> db, status |-> 404, detail |-> "Document revision not found"]
    ELSE [db |-> [db EXCEPT !.revisions = Without(@, revision_id)],
          status |-> 200, detail |-> "Document revision deleted successfully"]

\* PATCH /document-revisions/{revision_id}/status
update_revision_status(db, current_user, revision_id, new_status) ==
    IF revision_id \notin DOMAIN db.revisions
    THEN [db |-> db, status |-> 404, detail |-> "Document revision not found"]
    ELSE IF db.revisions[revision_id].status = "approved" /\ new_status # "approved"
    THEN [db |-> db, status |-> 400,
          detail |-> "Cannot change status of already approved revision"]
    ELSE [db |-> [db EXCEPT !.revisions[revision_id].status = new_status],
          status |-> 200, detail |-> "updated"]

\* The revision exists and belongs to the document.
RevisionOf(db, revision_id, document_id) ==
    /\ revision_id \in DOMAIN db.revisions
    /\ db.revisions[revision_id].document_id = document_id

\* POST /document-history/ ; of the columns of a history row the model keeps
\* document_id and revision_id.
create_history(db, current_user, document_id, revision_id, new_id) ==
    IF document_id \notin DOMAIN db.documents
    THEN [db |-> db, status |-> 404, detail |-> "Document not found"]
    ELSE IF TruthyId(revision_id) /\ ~RevisionOf(db, revision_id, document_id)
    THEN [db |-> db, status |-> 400,
          detail |-> "Revision not found or doesn't belong to this document"]
    ELSE [db |-> [db EXCEPT !.histories =
                    (new_id :> [document_id |-> document_id,
                                revision_id |-> revision_id]) @@ @],
          status |-> 201, detail |-> "created"]

\* PUT /document-history/{history_id} ; revision_id = NoId when the request
\* does not set it.
update_history(db, current_user, history_id, revision_id) ==
    IF history_id \notin DOMAIN db.histories
    THEN [db |-> db, status |-> 404, detail |-> "Document history not found"]
    ELSE IF /\ revision_id # NoId
            /\ ~RevisionOf(db, revision_id, db.histories[history_id].document_id)
    THEN [db |-> db, status |-> 400,
          detail |-> "Revision not found or doesn't belong to this document"]
    ELSE [db |-> IF revision_id # NoId
                 THEN [db EXCEPT !.histories[history_id].revision_id = revision_id]
                 ELSE db,
          status |-> 200, detail |-> "updated"]

\* DELETE /document-history/{history_id}
delete_history(db, current_user, history_id) ==
    IF history_id \notin DOMAIN db.histories
    THEN [db |-> db, status |-> 404, detail |-> "Document history not found"]
    ELSE [db |-> [db EXCEPT !.histories = Without(@, history_id)],
          status |-> 200, detail |-> "Document history deleted successfully"]

\* POST /document-history/log
log_action(db, current_user, document_id, revision_id, new_id) ==
    IF document_id \notin DOMAIN db.documents
    THEN [db |-> db, status |-> 404, detail |-> "Document not found"]
    ELSE [db |-> [db EXCEPT !.histories =
                    (new_id :> [document_id |-> document_id,
                                revision_id |-> revision_id]) @@ @],
          status |-> 200, detail |-> "created"]

\* One user; the database either enforces foreign keys or does not.
InitRevisions ==
    /\ users = {1}
    /\ roles = (1 :> [name |-> "Admin", slug |-> "admin"])
    /\ permissions = (1 :> "admin-all")
    /\ user_role = {<<1, 1>>}
    /\ role_permissions = {<<1, 1>>}
    /\ user_role_rows = RowsOf(user_role, UserIds \X RoleIds)
    /\ role_permission_rows = RowsOf(role_permissions, RoleIds \X PermIds)
    /\ inflight = EmptyBag
    /\ user_name = <<>>
    /\ user_email = <<>>
    /\ NoResources
    /\ NoTokens
    /\ revisions = <<>>
    /\ histories = <<>>
    /\ foreign_keys \in BOOLEAN

\* The request's transaction commits unless a foreign key is broken.
CommitChecked(res) == CommitResources(commit(RDB, res, foreign_keys))

NewDocument ==
    \E cu \in users, code \in DocumentCodes, id \in DocumentIds \ DOMAIN documents :
        CommitChecked(create_document(RDB, cu, code, NoId, id))

RemoveDocument ==
    \E cu \in users, id \in DocumentIds :
        CommitChecked(delete_document(RDB, cu, id))

CreateRevision ==
    \E cu \in users, document_id \in DocumentIds, n \in RevisionNumbers,
       status \in RevisionStatuses, id \in RevisionIds \ DOMAIN revisions :
        CommitChecked(create_revision(RDB, cu, document_id, n, status, id))

UpdateRevision ==
    \E cu \in users, id \in RevisionIds, n \in RevisionNumbers \cup {NoId},
       status \in RevisionStatuses \cup {None} :
        CommitChecked(update_revision(RDB, cu, id, n, status))

DeleteRevision ==
    \E cu \in users, id \in RevisionIds :
        CommitChecked(delete_revision(RDB, cu, id))

UpdateRevisionStatus ==
    \E cu \in users, id \in RevisionIds, new_status \in RevisionStatuses :
        CommitChecked(update_revision_status(RDB, cu, id, new_status))

CreateHistory ==
    \E cu \in users, document_id \in DocumentIds,
       revision_id \in RequestRevisionIds, id \in HistoryIds \ DOMAIN histories :
        CommitChecked(create_history(RDB, cu, document_id, revision_id, id))

UpdateHistory ==
    \E cu \in users, id \in HistoryIds, revision_id \in RequestRevisionIds :
        CommitChecked(update_history(RDB, cu, id, revision_id))

DeleteHistory ==
    \E cu \in users, id \in HistoryIds :
        CommitChecked(delete_history(RDB, cu, id))

LogAction ==
    \E cu \in users, document_id \in DocumentIds,
       revision_id \in RequestRevisionIds, id \in HistoryIds \ DOMAIN histories :
        CommitChecked(log_action(RDB, cu, document_id, revision_id, id))

NextRevisions ==
    \/ NewDocument
    \/ RemoveDocument
    \/ CreateRevision
    \/ UpdateRevision
    \/ DeleteRevision
    \/ UpdateRevisionStatus
    \/ CreateHistory
    \/ UpdateHistory
    \/ DeleteHistory
    \/ LogAction

SpecRevisions == InitRevisions /\ [][NextRevisions]_vars

\* ---- concurrent creates of documents, categories and revisions -------------
\* A request whose handler has passed its existence query and has not yet
\* reached db.commit(): the table and the row of its pending INSERT.
PendingRow(table, row) == [table |-> table, row |-> row]

\* Variant: the table has a UNIQUE constraint over the columns cols, and an
\* INSERT that repeats their values is refused.
InsertRowUnique(table, row, new_id, cols) ==
    IF \E x \in DOMAIN table : \A c \in cols : table[x][c] = row[c]
    THEN table
    ELSE (new_id :> row) @@ table

\* INSERT of the row under a fresh primary key; the tables documents,
\* categories and document_revisions have no UNIQUE constraint.
InsertRow(table, row, new_id, cols) == (new_id :> row) @@ table

\* The columns the application keeps unique by its query.
CheckedColumns(table) ==
    CASE table = "documents" -> {"code"}
      [] table = "categories" -> {"name"}
      [] table = "revisions" -> {"document_id", "revision_number"}

\* The rows of a table of the model, as records.
TableRows(table) ==
    CASE table = "documents" -> documents
      [] table = "categories" -> [c \in DOMAIN categories |-> [name |-> categories[c]]]
      [] table = "revisions" -> revisions

TableIds(table) ==
    CASE table = "documents" -> DocumentIds
      [] table = "categories" -> CategoryIds
      [] table = "revisions" -> RevisionIds

\* The handler runs up to db.commit(): a request that raised has ended, one
\* that passed its checks is in flight with its row.
RunToInsert(res, table, row) ==
    /\ res.status = 201
    /\ BagCardinality(inflight) < MaxRequests
    /\ inflight' = inflight (+) SetToBag({PendingRow(table, row)})
    /\ UNCHANGED <<users, roles, permissions, user_role, role_permissions,
                   user_role_rows, role_permission_rows, ProfileVars,
                   ResourceVars, AuthVars, RevisionVars>>

ReadCreateDocument ==
    \E cu \in users, code \in DocumentCodes :
        RunToInsert(create_document(RDB, cu, code, NoId, 0), "documents",
                    [code |-> code, category_id |-> NoId, uploaded_by |-> cu])

ReadCreateCategory ==
    \E cu \in users, name \in CategoryNames :
        RunToInsert(create_category(RDB, cu, name, 0), "categories",
                    [name |-> name])

ReadCreateRevision ==
    \E cu \in users, document_id \in DocumentIds, n \in RevisionNumbers :
        RunToInsert(create_revision(RDB, cu, document_id, n, "draft", 0),
                    "revisions",
                    [document_id |-> document_id, revision_number |-> n,
                     status |-> "draft"])

\* db.commit() of a request in flight: its row is inserted under the next
\* free primary key.
CommitInsert ==
    \E req \in BagToSet(inflight) :
      \E new_id \in TableIds(req.table) \ DOMAIN TableRows(req.table) :
        LET after == InsertRow(TableRows(req.table), req.row, new_id,
                               CheckedColumns(req.table))
        IN /\ inflight' = inflight (-) SetToBag({req})
           /\ documents' = IF req.table = "documents" THEN after ELSE documents
           /\ categories' = IF req.table = "categories"
                            THEN [c \in DOMAIN after |-> after[c].name]
                            ELSE categories
           /\ revisions' = IF req.table = "revisions" THEN after ELSE revisions
           /\ UNCHANGED <<users, roles, permissions, user_role, role_permissions,
                          user_role_rows, role_permission_rows, ProfileVars,
                          notifications, histories, foreign_keys, AuthVars>>

NextRace ==
    \/ ReadCreateDocument
    \/ ReadCreateCategory
    \/ ReadCreateRevision
    \/ CommitInsert

SpecRace == InitResources /\ [][NextRace]_vars

\* ---- properties -----------------------------------------------------------
\* The graph, read directly from the tables.
HeldRoles(u) == {r \in DOMAIN roles : <<u, r>> \in user_role}
PermsOfRole(r) == {p \in DOMAIN permissions : <<r, p>> \in role_permissions}
GrantingRoleIds(u, p) == {r \in HeldRoles(u) : p \in PermsOfRole(r)}
EffectivePermissionIds(u) == UNION {PermsOfRole(r) : r \in HeldRoles(u)}
Unresolved(slug) == \A p \in DOMAIN permissions : permissions[p] # slug

\* C1: in every reachable state the effective permission set returned for a
\* user, by the helper get_user_permissions (slugs) and by the endpoint
\* GET /permissions/users/{id}/permissions (rows), is exactly the union of
\* the permission sets of the roles the user holds in that state.
C1_EffectivePermissionsUnion ==
    \A u \in users :
        /\ get_user_permissions(DB, u) =
               {permissions[p] : p \in EffectivePermissionIds(u)}
        /\ get_user_permissions_endpoint(DB, u).status = 200
        /\ get_user_permissions_endpoint(DB, u).permissions =
               EffectivePermissionIds(u)

\* A user holds two roles whose permission sets differ and are both
\* non-empty: the union is larger than either.
C1_Witness ==
    \E u \in users : \E r1, r2 \in HeldRoles(u) :
        /\ PermsOfRole(r1) \ PermsOfRole(r2) # {}
        /\ PermsOfRole(r2) \ PermsOfRole(r1) # {}
        /\ Cardinality(get_user_permissions(DB, u)) = 2

\* C2: for every existing user u and existing permission p the permission
\* check (helper and GET check endpoint) is true iff some role held by u has
\* p in its permission set, i.e. iff p's slug is in the effective set.
C2_CheckIffGranted ==
    \A u \in users : \A p \in DOMAIN permissions :
        /\ check_user_has_permission(DB, u, permissions[p])
               = (GrantingRoleIds(u, p) # {})
        /\ check_user_has_permission(DB, u, permissions[p])
               = (permissions[p] \in get_user_permissions(DB, u))
        /\ check_user_permission(DB, u, permissions[p]).status = 200
        /\ check_user_permission(DB, u, permissions[p]).has_permission
               = (GrantingRoleIds(u, p) # {})

\* A permission reaches a user only through the second of the user's roles,
\* and another permission does not reach the user at all.
C2_Witness ==
    \E u \in users : \E p, q \in DOMAIN permissions :
        /\ Cardinality(HeldRoles(u)) = 2
        /\ GrantingRoleIds(u, p) = {UserRoles(DB, u)[2]}
        /\ check_user_has_permission(DB, u, permissions[p])
        /\ ~check_user_has_permission(DB, u, permissions[q])

\* C3 as stated: for an unknown user id or an unresolved slug both the helper
\* and the check endpoint answer false without an error.
C3_Original ==
    \A u \in UserIds : \A slug \in PermSlugs :
        (u \notin users \/ Unresolved(slug)) =>
            /\ check_user_has_permission(DB, u, slug) = FALSE
            /\ check_user_permission(DB, u, slug).status = 200
            /\ check_user_permission(DB, u, slug).has_permission = FALSE

\* C3 (amended): for an unknown user id or an unresolved slug the helper
\* check_user_has_permission answers false, while the check endpoint fails
\* with 404 ("User not found", or "Permission not found" for a known user).
C3_MissingEntity ==
    \A u \in UserIds : \A slug \in PermSlugs :
        (u \notin users \/ Unresolved(slug)) =>
            /\ check_user_has_permission(DB, u, slug) = FALSE
            /\ check_user_permission(DB, u, slug).status = 404
            /\ check_user_permission(DB, u, slug).detail =
                   IF u \notin users THEN "User not found"
                   ELSE "Permission not found"

\* The seeded user has been deleted and the seeded slug no longer resolves;
\* a remaining user who holds a granting role is checked against that slug.
C3_Witness ==
    /\ 1 \notin users
    /\ Unresolved("admin-all")
    /\ check_user_has_permission(DB, 1, "documents.create") = FALSE
    /\ \E u \in users :
        /\ EffectivePermissionIds(u) # {}
        /\ check_user_permission(DB, u, "admin-all").status = 404

\* C4: granted_via_roles of the check endpoint holds exactly the names of
\* the held roles whose permission set contains p, each once, and
\* has_permission is true iff that list is non-empty.
C4_GrantedViaRoles ==
    \A u \in users : \A p \in DOMAIN permissions :
        LET res == check_user_permission(DB, u, permissions[p]) IN
        /\ SeqSet(res.granted_via_roles) =
               {roles[r].name : r \in GrantingRoleIds(u, p)}
        /\ Len(res.granted_via_roles) = Cardinality(GrantingRoleIds(u, p))
        /\ res.has_permission = (res.granted_via_roles # <<>>)

\* Two held roles grant the same permission, and a third case where a held
\* role does not grant it.
C4_Witness ==
    \E u \in users : \E p, q \in DOMAIN permissions :
        /\ Cardinality(GrantingRoleIds(u, p)) = 2
        /\ Len(check_user_permission(DB, u, permissions[p]).granted_via_roles) = 2
        /\ Cardinality(GrantingRoleIds(u, q)) = 1

\* The answer of the role check for user u and the name of role r.
HasRole(db, u, r) == check_user_role_by_get(db, u, db.roles[r].name)

\* The rows of user_role other than (u, role_id) for the listed users u.
OtherMemberships(ur, role_id, ids) ==
    {x \in ur : ~(x[2] = role_id /\ x[1] \in SeqSet(ids))}

\* C5: right after a successful assign_role_to_user(u, r), or a successful
\* bulk assign listing the existing user u, the role check for (u, r.name)
\* is true; right after a successful unassign_role_from_user(u, r), or bulk
\* unassign listing u, it is false; every other (user, role) pair keeps its
\* membership.
C5_RoleCheckFollowsMembership ==
    /\ \A u \in UserIds : \A r \in RoleIds :
        LET a == assign_role_to_user(DB, u, r)
            d == unassign_role_from_user(DB, u, r)
        IN /\ a.status = 200 =>
                /\ HasRole(a.db, u, r).status = 200
                /\ HasRole(a.db, u, r).has_role = TRUE
                /\ OtherMemberships(a.db.user_role, r, <<u>>)
                       = OtherMemberships(user_role, r, <<u>>)
           /\ d.status = 200 =>
                /\ HasRole(d.db, u, r).status = 200
                /\ HasRole(d.db, u, r).has_role = FALSE
                /\ OtherMemberships(d.db.user_role, r, <<u>>)
                       = OtherMemberships(user_role, r, <<u>>)
    /\ \A r \in RoleIds : \A ids \in SeqsUpTo(UserIds, MaxBulk) :
        LET a1 == bulk_assign_role(DB, r, ids)
            a2 == bulk_assign_roles_alt(DB, r, ids)
            d2 == bulk_unassign_roles_alt(DB, r, ids)
        IN /\ a1.status = 200 =>
                /\ \A u \in SeqSet(ids) \cap users : HasRole(a1.db, u, r).has_role = TRUE
                /\ OtherMemberships(a1.db.user_role, r, ids)
                       = OtherMemberships(user_role, r, ids)
           /\ a2.status = 200 =>
                /\ \A u \in SeqSet(ids) \cap users : HasRole(a2.db, u, r).has_role = TRUE
                /\ OtherMemberships(a2.db.user_role, r, ids)
                       = OtherMemberships(user_role, r, ids)
           /\ d2.status = 200 =>
                /\ \A u \in SeqSet(ids) \cap users : HasRole(d2.db, u, r).has_role = FALSE
                /\ OtherMemberships(d2.db.user_role, r, ids)
                       = OtherMemberships(user_role, r, ids)

\* The seeded membership (1, 1) has been removed while user and role remain,
\* another membership has been added, and a bulk assign of a role to two
\* users who both lack it succeeds.
C5_Witness ==
    /\ 1 \in users /\ 1 \in DOMAIN roles /\ <<1, 1>> \notin user_role
    /\ HasRole(DB, 1, 1).has_role = FALSE
    /\ \E u \in users : \E r \in DOMAIN roles :
        <<u, r>> \in user_role /\ HasRole(DB, u, r).has_role = TRUE
    /\ \E r \in DOMAIN roles : \E ids \in SeqsUpTo(UserIds, MaxBulk) :
        /\ bulk_assign_role(DB, r, ids).status = 200
        /\ bulk_assign_role(DB, r, ids).assigned_user_count = 2

\* C6: when unassign_permissions_from_role removes permission p from role
\* r, the permission check for p becomes false for every user for whom r was
\* the only granting role, stays true for every user holding another role
\* that grants p, and the check of every permission r keeps is unchanged.
C6_RevocationCascade ==
    \A r \in DOMAIN roles : \A slugs \in SeqsUpTo(PermSlugs, MaxSlugs) :
        LET res == unassign_permissions_from_role(DB, r, slugs) IN
        \A p \in PermsOfRole(r) : \A u \in users :
            IF <<r, p>> \notin res.db.role_permissions
            THEN /\ GrantingRoleIds(u, p) \subseteq {r} =>
                        ~check_user_has_permission(res.db, u, permissions[p])
                 /\ GrantingRoleIds(u, p) \ {r} # {} =>
                        check_user_has_permission(res.db, u, permissions[p])
            ELSE check_user_has_permission(res.db, u, permissions[p])
                     = check_user_has_permission(DB, u, permissions[p])

\* Two roles grant the same permission; one user holds both, another holds
\* only one of them, and that role grants a second permission too.
C6_Witness ==
    \E r1, r2 \in DOMAIN roles : \E p, q \in DOMAIN permissions :
    \E u1, u2 \in users :
        /\ r1 # r2 /\ p # q
        /\ p \in PermsOfRole(r1) /\ p \in PermsOfRole(r2) /\ q \in PermsOfRole(r1)
        /\ HeldRoles(u1) = {r1, r2} /\ HeldRoles(u2) = {r1}
        /\ LET res == unassign_permissions_from_role(DB, r1, <<permissions[p]>>)
           IN /\ check_user_has_permission(res.db, u1, permissions[p])
              /\ ~check_user_has_permission(res.db, u2, permissions[p])
              /\ check_user_has_permission(res.db, u2, permissions[q])

\* C7: assign_permissions_to_role fails with 404 for an unknown role, and
\* with 404 naming exactly the unresolved slugs when a requested slug
\* resolves to no permission; in both cases the database is unchanged.
\* Otherwise it succeeds and the role holds every requested permission.
C7_AssignAllOrNothing ==
    \A r \in RoleIds : \A slugs \in SeqsUpTo(PermSlugs, MaxSlugs) :
        LET res == assign_permissions_to_role(DB, r, slugs)
            missing == {slug \in SeqSet(slugs) : Unresolved(slug)}
        IN IF r \notin DOMAIN roles
           THEN res.status = 404 /\ res.detail = "Role not found" /\ res.db = DB
           ELSE IF missing # {}
           THEN /\ res.status = 404 /\ res.detail = "Permissions not found"
                /\ SeqSet(res.missing_slugs) = missing
                /\ Len(res.missing_slugs) = Cardinality(missing)
                /\ res.db = DB
           ELSE /\ res.status = 200
                /\ \A slug \in SeqSet(slugs) :
                       <<r, Permission_get_by_slug(DB, slug)>>
                           \in res.db.role_permissions

\* A request for an existing role names one slug that resolves to a
\* permission the role lacks and one slug that resolves to nothing.
C7_Witness ==
    \E r \in DOMAIN roles : \E slugs \in SeqsUpTo(PermSlugs, MaxSlugs) :
    \E p \in DOMAIN permissions :
        /\ permissions[p] \in SeqSet(slugs)
        /\ p \notin PermsOfRole(r)
        /\ \E slug \in SeqSet(slugs) : Unresolved(slug)
        /\ assign_permissions_to_role(DB, r, slugs).status = 404
        /\ Len(assign_permissions_to_role(DB, r, slugs).missing_slugs) = 1

\* C8: a successful assign_permissions_to_role applied again with the same
\* list succeeds, leaves the database and total_permissions as the first
\* application left them, and a list that names a slug twice gives the same
\* outcome as the list naming it once.
C8_AssignIdempotent ==
    \A r \in RoleIds :
        /\ \A slugs \in SeqsUpTo(PermSlugs, MaxSlugs) :
            LET once == assign_permissions_to_role(DB, r, slugs) IN
            once.status = 200 =>
                LET twice == assign_permissions_to_role(once.db, r, slugs) IN
                /\ twice.status = 200
                /\ twice.db = once.db
                /\ twice.permissions = once.permissions
                /\ twice.total_permissions = once.total_permissions
                /\ once.total_permissions =
                       Cardinality({x \in once.db.role_permissions : x[1] = r})
        /\ \A slug \in PermSlugs :
            LET single == assign_permissions_to_role(DB, r, <<slug>>)
                double == assign_permissions_to_role(DB, r, <<slug, slug>>)
            IN double.status = single.status /\ double.db = single.db

\* A role holds one permission and lacks another; both are requested.
C8_Witness ==
    \E r \in DOMAIN roles : \E p, q \in DOMAIN permissions :
        /\ p \in PermsOfRole(r) /\ q \notin PermsOfRole(r)
        /\ LET once == assign_permissions_to_role(DB, r, <<permissions[p], permissions[q]>>)
           IN once.status = 200 /\ once.total_permissions = 2
              /\ once.db # DB

\* C9: unassign_permissions_from_role fails with 404 only for an unknown
\* role; otherwise it succeeds and removes from the role exactly the held
\* permissions named by a resolvable slug, ignoring unresolved slugs and
\* permissions the role lacks, and it changes nothing else: other roles'
\* permission links, user_role, users, roles and permissions stay as they
\* were.
C9_UnassignFrame ==
    \A r \in RoleIds : \A slugs \in SeqsUpTo(PermSlugs, MaxSlugs) :
        LET res == unassign_permissions_from_role(DB, r, slugs) IN
        IF r \notin DOMAIN roles
        THEN res.status = 404 /\ res.db = DB
        ELSE /\ res.status = 200
             /\ res.db.role_permissions =
                    role_permissions \
                        {<<r, p>> : p \in {q \in DOMAIN permissions :
                                              permissions[q] \in SeqSet(slugs)}}
             /\ res.db.users = users
             /\ res.db.roles = roles
             /\ res.db.permissions = permissions
             /\ res.db.user_role = user_role

\* The request names a slug that resolves to nothing and a slug of a
\* permission that this role and another role both hold.
C9_Witness ==
    \E r1, r2 \in DOMAIN roles : \E p \in DOMAIN permissions :
    \E slug \in PermSlugs :
        /\ r1 # r2 /\ Unresolved(slug)
        /\ p \in PermsOfRole(r1) /\ p \in PermsOfRole(r2)
        /\ LET res == unassign_permissions_from_role(DB, r1, <<slug, permissions[p]>>)
           IN /\ res.status = 200
              /\ <<r1, p>> \notin res.db.role_permissions
              /\ <<r2, p>> \in res.db.role_permissions

\* C10: assign_role_to_user and unassign_role_from_user answer 404 when the
\* user or the role does not exist; assign answers 400 (duplicate
\* membership) when the user already holds the role and unassign answers 400
\* (no such membership) when the user does not hold it; in every one of
\* these cases the database is unchanged.
C10_MembershipFailures ==
    \A u \in UserIds : \A r \in RoleIds :
        LET a == assign_role_to_user(DB, u, r)
            d == unassign_role_from_user(DB, u, r)
        IN IF u \notin users \/ r \notin DOMAIN roles
           THEN /\ a.status = 404 /\ a.db = DB
                /\ d.status = 404 /\ d.db = DB
           ELSE IF <<u, r>> \in user_role
           THEN /\ a.status = 400 /\ a.detail = "User already has this role"
                /\ a.db = DB
                /\ d.status = 200
           ELSE /\ d.status = 400 /\ d.detail = "User does not have this role"
                /\ d.db = DB
                /\ a.status = 200

\* An unknown user id is refused, an existing user holds one role (assigning
\* it again is refused) and lacks another (unassigning it is refused).
C10_Witness ==
    /\ \E u \in UserIds \ users : \E r \in DOMAIN roles :
        /\ assign_role_to_user(DB, u, r).status = 404
        /\ unassign_role_from_user(DB, u, r).status = 404
    /\ \E u \in users : \E r1, r2 \in DOMAIN roles :
        /\ assign_role_to_user(DB, u, r1).status = 400
        /\ unassign_role_from_user(DB, u, r2).status = 400

\* C11: in every reachable state each (user, role) pair and each
\* (role, permission) pair is stored at most once in its junction table,
\* whatever the interleaving of assign_role_to_user, the bulk role-assign
\* endpoints and assign_permissions_to_role, two concurrent requests that
\* assign the same pair included.
C11_PairsStoredOnce ==
    /\ \A x \in DOMAIN user_role_rows : user_role_rows[x] <= 1
    /\ \A x \in DOMAIN role_permission_rows : role_permission_rows[x] <= 1

\* Two requests both read a pair as absent and queued it; one has committed
\* and the other is still in flight with the same pair, in either table.
C11_Witness ==
    /\ \E req \in BagToSet(inflight) :
           /\ req.table = "user_role"
           /\ \E x \in req.rows : user_role_rows[x] = 1
    /\ \E req \in BagToSet(inflight) :
           /\ req.table = "role_permissions"
           /\ \E x \in req.rows : role_permission_rows[x] = 1

\* The role row update_role is asked to write.
RequestedRoleRow(role_id, name, slug_in) ==
    [name |-> IF name # None THEN name ELSE roles[role_id].name,
     slug |-> IF slug_in # None THEN slug_must_be_lowercase(slug_in)
              ELSE roles[role_id].slug]

Admins == {u \in users : "Admin" \in RoleNamesOf(DB, u)}

\* C12: no two roles share a name, no two roles share a slug and no two
\* permissions share a slug; and a create_role, update_role,
\* create_permission or update_permission that would introduce such a
\* duplicate fails with Conflict (400) and leaves every row unchanged.
C12_Original ==
    /\ \A r1, r2 \in DOMAIN roles :
           r1 # r2 => /\ roles[r1].name # roles[r2].name
                      /\ roles[r1].slug # roles[r2].slug
    /\ \A p1, p2 \in DOMAIN permissions :
           p1 # p2 => permissions[p1] # permissions[p2]
    /\ \A name \in RoleNames, slug_in \in RoleSlugInputs \cup {None},
          id \in RoleIds \ DOMAIN roles :
           (\E r \in DOMAIN roles :
                \/ roles[r].name = name
                \/ roles[r].slug = generate_slug(slug_in, name))
           => /\ create_role(DB, name, slug_in, id).status = 400
              /\ create_role(DB, name, slug_in, id).db = DB
    /\ \A role_id \in DOMAIN roles, name \in RoleNames \cup {None, ""},
          slug_in \in RoleSlugInputs \cup {None, ""} :
           ~RoleRowIsUnique(DB, role_id,
                            RequestedRoleRow(role_id, name, slug_in))
           => /\ update_role(DB, role_id, name, slug_in).status = 400
              /\ update_role(DB, role_id, name, slug_in).db = DB
    /\ \A cu \in Admins, slug \in PermSlugs :
           /\ \A id \in PermIds \ DOMAIN permissions :
                  (\E p \in DOMAIN permissions : permissions[p] = slug)
                  => LET res == require_role("Admin", DB, cu,
                                    create_permission(DB, slug, id))
                     IN res.status = 400 /\ res.db = DB
           /\ \A permission_id \in DOMAIN permissions :
                  (\E p \in DOMAIN permissions \ {permission_id} :
                       permissions[p] = slug)
                  => LET res == require_role("Admin", DB, cu,
                                    update_permission(DB, permission_id, slug))
                     IN res.status = 400 /\ res.db = DB

\* C13: no two distinct users have e-mail addresses that are equal when
\* letter case is ignored, in every state reachable by create_user,
\* update_user and update_user_profile; and a create or update whose e-mail
\* equals another user's in any letter-casing fails with Conflict (400).
C13_EmailsUniqueIgnoringCase ==
    /\ \A u1, u2 \in users :
           u1 # u2 => Lower(user_email[u1]) # Lower(user_email[u2])
    /\ \A email \in Emails, name \in UserNames \cup {None} :
           /\ \A id \in UserIds \ users :
                  (\E u \in users : Lower(user_email[u]) = Lower(email))
                  => create_user_record(UDB, IF name = None THEN "Ann" ELSE name,
                                        email, id).status = 400
           /\ \A cu \in users, user_id \in users :
                  (/\ is_admin(UDB, cu) \/ cu = user_id
                   /\ \E u \in users \ {user_id} :
                          Lower(user_email[u]) = Lower(email))
                  => update_user(UDB, cu, user_id, name, email).status = 400
           /\ \A cu \in users :
                  (\E u \in users \ {cu} :
                       Lower(user_email[u]) = Lower(email))
                  => update_user_profile(UDB, cu, name, email).status = 400

\* Two users exist, one of them with an address in capitals, and the other
\* is refused that address written in lower case by both update endpoints,
\* while it may take the lower-case form of its own address.
C13_Witness ==
    \E u1, u2 \in users :
        /\ u1 # u2
        /\ user_email[u1] # Lower(user_email[u1])
        /\ user_email[u2] # Lower(user_email[u2])
        /\ update_user(UDB, u2, u2, None, Lower(user_email[u1])).status = 400
        /\ update_user_profile(UDB, u2, None, Lower(user_email[u1])).status = 400
        /\ update_user(UDB, u2, u2, None, Lower(user_email[u2])).status = 200

\* The permissions user u holds through role r and through no other role.
GrantedOnlyBy(u, r) ==
    {p \in PermsOfRole(r) : GrantingRoleIds(u, p) = {r}}

\* C14: deleting a role that one or more users hold succeeds; afterwards the
\* role is in none of those users' role sets, and every permission that only
\* that role granted to one of them is no longer held by that user (the
\* permission check answers false).
C14_Original ==
    \A role_id \in DOMAIN roles :
        LET holders == {u \in users : role_id \in HeldRoles(u)}
            res == delete_role(DB, role_id)
        IN holders # {}
           => /\ res.status = 200
              /\ role_id \notin DOMAIN res.db.roles
              /\ \A u \in holders :
                     /\ <<u, role_id>> \notin res.db.user_role
                     /\ \A p \in GrantedOnlyBy(u, role_id) :
                            ~check_user_has_permission(res.db, u, permissions[p])

C16_NoOrphanJoinRows ==
    /\ \A x \in user_role : x[1] \in users /\ x[2] \in DOMAIN roles
    /\ \A x \in role_permissions :
           x[1] \in DOMAIN roles /\ x[2] \in DOMAIN permissions
    /\ \A x \in LoadedPairs(user_role_rows) :
           x[1] \in users /\ x[2] \in DOMAIN roles
    /\ \A x \in LoadedPairs(role_permission_rows) :
           x[1] \in DOMAIN roles /\ x[2] \in DOMAIN permissions

\* The seeded user, role and permission, which were joined, have all been
\* deleted, and the remaining entities are joined in both tables.
C16_Witness ==
    /\ 1 \notin users
    /\ 1 \notin DOMAIN roles
    /\ 1 \notin DOMAIN permissions
    /\ user_role # {}
    /\ role_permissions # {}

\* C17: bulk-assigning an existing role to a list of user ids is
\* best-effort per item: success_count is the number of listed users that
\* exist (and are newly given the role), failed_count the number of listed
\* ids that resolve to no user, the two add up to the number of ids
\* requested, and the existing users' assignments are committed although
\* other ids failed.  (Lists of distinct ids none of whose users holds the
\* role yet.)
C17_Original ==
    \A role_id \in DOMAIN roles, user_ids \in SeqsUpTo(UserIds, MaxBulk) :
        LET listed == SeqSet(user_ids)
            existing == listed \cap users
            res == bulk_assign_roles_alt(DB, role_id, user_ids)
            strict == bulk_assign_role(DB, role_id, user_ids)
        IN (/\ Cardinality(listed) = Len(user_ids)
            /\ \A u \in existing : <<u, role_id>> \notin user_role)
           => /\ res.status = 200
              /\ res.success_count = Cardinality(existing)
              /\ res.failed_count = Cardinality(listed \ users)
              /\ res.success_count + res.failed_count = Len(user_ids)
              /\ \A u \in existing : <<u, role_id>> \in res.db.user_role
              /\ strict.status = 200
              /\ \A u \in existing : <<u, role_id>> \in strict.db.user_role

\* The notifications of db addressed to user u that are not in the current
\* table.
NewNotificationsFor(db, u) ==
    {n \in DOMAIN db.notifications \ DOMAIN notifications :
        db.notifications[n].notifiable_id = u}

\* C18: bulk_delete_permissions and send_bulk_notification report per-item
\* outcomes exactly.  For a request listing distinct ids, success_count is
\* the number of ids that resolve to an existing entity, failed_count the
\* number that do not, their sum is total_requested, and the effect (the
\* permission deleted, one notification created for the user) is applied to
\* exactly the resolving ids; when the final commit fails nothing is applied
\* and the report is success_count = 0, failed_count = total_requested.
C18_Original ==
    /\ \A cu \in Admins, ids \in SeqsUpTo(PermIds, MaxBulk),
          commit_ok \in BOOLEAN :
           LET listed == SeqSet(ids)
               res == require_role("Admin", DB, cu,
                          bulk_delete_permissions_outcome(DB, ids, commit_ok))
           IN Cardinality(listed) = Len(ids)
              => /\ res.status = 200
                 /\ res.total_requested = Len(ids)
                 /\ res.success_count + res.failed_count = Len(ids)
                 /\ IF commit_ok
                    THEN /\ res.success_count =
                               Cardinality(listed \cap DOMAIN permissions)
                         /\ res.failed_count =
                               Cardinality(listed \ DOMAIN permissions)
                         /\ DOMAIN res.db.permissions =
                               DOMAIN permissions \ listed
                    ELSE /\ res.success_count = 0
                         /\ res.failed_count = Len(ids)
                         /\ res.db = DB
    /\ \A cu \in users, ids \in SeqsUpTo(RequestUserIds, MaxBulk),
          commit_ok \in BOOLEAN :
           LET listed == SeqSet(ids)
               res == send_bulk_notification(RDB, cu, ids, commit_ok)
           IN (/\ Cardinality(listed) = Len(ids)
               /\ Len(ids) <= Len(UnusedNotificationIds(RDB)))
              => /\ res.status = 200
                 /\ res.total_requested = Len(ids)
                 /\ res.success_count + res.failed_count = Len(ids)
                 /\ \A n \in DOMAIN notifications :
                        /\ n \in DOMAIN res.db.notifications
                        /\ res.db.notifications[n] = notifications[n]
                 /\ IF commit_ok
                    THEN /\ res.success_count = Cardinality(listed \cap users)
                         /\ res.failed_count = Cardinality(listed \ users)
                         /\ \A u \in RequestUserIds :
                                Cardinality(NewNotificationsFor(res.db, u)) =
                                    IF u \in listed \cap users THEN 1 ELSE 0
                    ELSE /\ res.success_count = 0
                         /\ res.failed_count = Len(ids)
                         /\ res.db = RDB

\* The users who hold no role.
RegularUsers == {u \in users : HeldRoles(u) = {}}

\* HTTP 401 and 403.
Denied(res) == res.status \in {401, 403}

\* C19: every mutating endpoint on categories, documents and notifications
\* checks the caller's roles or permissions before the mutation: a caller
\* who holds no role is denied (401/403) when creating, updating or deleting
\* a category or a document or creating a notification for a user, and the
\* denied request changes nothing.
C19_Original ==
    \A cu \in RegularUsers :
        /\ \A name \in CategoryNames, id \in CategoryIds :
               /\ id \notin DOMAIN categories
                  => /\ Denied(create_category(RDB, cu, name, id))
                     /\ create_category(RDB, cu, name, id).db = RDB
               /\ Denied(update_category(RDB, cu, id, name))
               /\ update_category(RDB, cu, id, name).db = RDB
               /\ Denied(delete_category(RDB, cu, id))
               /\ delete_category(RDB, cu, id).db = RDB
        /\ \A code \in DocumentCodes, id \in DocumentIds :
               /\ id \notin DOMAIN documents
                  => /\ Denied(create_document(RDB, cu, code, NoId, id))
                     /\ create_document(RDB, cu, code, NoId, id).db = RDB
               /\ Denied(delete_document(RDB, cu, id))
               /\ delete_document(RDB, cu, id).db = RDB
        /\ \A u \in users, id \in NotificationIds \ DOMAIN notifications :
               /\ Denied(create_notification(RDB, cu, u, id))
               /\ create_notification(RDB, cu, u, id).db = RDB

\* The answer is 403 and the database is as before.
Forbidden(res) == res.status = 403 /\ res.db = DB

Succeeded(res) == res.status \in {200, 201}

\* C20: permission management is Admin-only and the gate comes first:
\* create_permission, update_permission, delete_permission and
\* bulk_delete_permissions called by a user who holds no role named 'Admin'
\* answer 403, also for a permission id that does not exist, and leave the
\* permissions and the role-permission links unchanged; called by a user
\* holding 'Admin' with valid input they succeed and take effect.
C20_Original ==
    /\ \A cu \in users \ Admins :
           /\ \A slug \in PermSlugs, id \in PermIds \ DOMAIN permissions :
                  Forbidden(require_role("Admin", DB, cu,
                                         create_permission(DB, slug, id)))
           /\ \A p \in PermIds, slug \in PermSlugs \cup {None} :
                  Forbidden(require_role("Admin", DB, cu,
                                         update_permission(DB, p, slug)))
           /\ \A p \in PermIds :
                  Forbidden(require_role("Admin", DB, cu,
                                         delete_permission(DB, p)))
           /\ \A ids \in SeqsUpTo(PermIds, MaxBulk) :
                  Forbidden(require_role("Admin", DB, cu,
                                         bulk_delete_permissions(DB, ids)))
    /\ \A cu \in Admins :
           /\ \A slug \in PermSlugs, id \in PermIds \ DOMAIN permissions :
                  Unresolved(slug)
                  => LET res == require_role("Admin", DB, cu,
                                    create_permission(DB, slug, id))
                     IN /\ Succeeded(res)
                        /\ Permission_get_by_slug(res.db, slug) = id
           /\ \A p \in DOMAIN permissions, slug \in PermSlugs :
                  Unresolved(slug)
                  => LET res == require_role("Admin", DB, cu,
                                    update_permission(DB, p, slug))
                     IN /\ Succeeded(res)
                        /\ res.db.permissions[p] = slug
           /\ \A p \in DOMAIN permissions :
                  LET res == require_role("Admin", DB, cu,
                                 delete_permission(DB, p))
                  IN /\ Succeeded(res)
                     /\ p \notin DOMAIN res.db.permissions
           /\ \A ids \in SeqsUpTo(PermIds, MaxBulk) :
                  LET res == require_role("Admin", DB, cu,
                                 bulk_delete_permissions(DB, ids))
                  IN /\ Succeeded(res)
                     /\ DOMAIN res.db.permissions =
                            DOMAIN permissions \ SeqSet(ids)

\* The credentials the token check must refuse: no header, a header that is
\* not Bearer, a token that is not a JWT, is signed with another key, has
\* expired, carries no integer sub, or names no existing user.
Unauthenticated(credentials) ==
    \/ credentials.scheme # "Bearer"
    \/ ~credentials.token.wellformed
    \/ credentials.token.key # "SECRET_KEY"
    \/ credentials.token.exp <= now
    \/ credentials.token.sub_kind # "digits"
    \/ credentials.token.sub \notin users

Refused401(res) ==
    /\ res.status = 401
    /\ res.db = DB
    /\ res.issued = {}

\* C21: a request to an authenticated endpoint whose bearer token is missing,
\* malformed, wrongly signed, expired, without an integer subject, or naming
\* a user that does not exist (any more) is answered 401 and changes no
\* state; a token issued to a user stops authenticating once the user is
\* deleted.
C21_Original ==
    \A credentials \in RequestCredentials, s \in NotAuthenticatedStatuses :
        Unauthenticated(credentials) =>
            /\ Refused401(refresh_token(DB, now, credentials, s))
            /\ Refused401(logout(DB, now, credentials, s))
            /\ \A user_id \in UserIds :
                   Refused401(delete_user_request(DB, now, credentials, s, user_id))
            /\ \A new_id \in UserIds \ users :
                   Refused401(create_user_request(DB, now, credentials, s, new_id))

\* The notifications of db that belong to somebody other than the caller.
OthersNotifications(db, current_user) ==
    {n \in DOMAIN db.notifications :
        db.notifications[n].notifiable_id # current_user}

\* The handler left every notification of the others as it was.
OthersUntouched(db, current_user, res) ==
    \A n \in OthersNotifications(db, current_user) :
        /\ n \in DOMAIN res.db.notifications
        /\ res.db.notifications[n] = db.notifications[n]
        /\ n \notin res.body

\* C22: a user can read, mark and delete only their own notifications: for a
\* notification of another user get_notification, mark_notification_read and
\* delete_notification answer 403, the two bulk handlers count it as failed,
\* the notification is unchanged and no endpoint returns its content.
C22_Original ==
    \A cu \in users :
        /\ \A n \in OthersNotifications(RDB, cu) :
              /\ get_notification(RDB, cu, n).status = 403
              /\ \A is_read \in BOOLEAN :
                     mark_notification_read(RDB, cu, n, is_read).status = 403
              /\ delete_notification(RDB, cu, n).status = 403
              /\ \A commit_ok \in BOOLEAN :
                     /\ bulk_mark_notifications_read(RDB, cu, <<n>>, commit_ok).failed_count = 1
                     /\ bulk_delete_notifications(RDB, cu, <<n>>, commit_ok).failed_count = 1
        /\ \A id \in NotificationIds, is_read \in BOOLEAN :
              /\ OthersUntouched(RDB, cu, get_notification(RDB, cu, id))
              /\ OthersUntouched(RDB, cu, mark_notification_read(RDB, cu, id, is_read))
              /\ OthersUntouched(RDB, cu, delete_notification(RDB, cu, id))
        /\ OthersUntouched(RDB, cu, mark_all_notifications_read(RDB, cu))
        /\ OthersUntouched(RDB, cu, delete_read_notifications(RDB, cu))
        /\ \A ids \in SeqsUpTo(NotificationIds, MaxBulk), commit_ok \in BOOLEAN :
              /\ OthersUntouched(RDB, cu, bulk_mark_notifications_read(RDB, cu, ids, commit_ok))
              /\ OthersUntouched(RDB, cu, bulk_delete_notifications(RDB, cu, ids, commit_ok))
              /\ OthersUntouched(RDB, cu, delete_bulk_route(RDB, cu, ids))
        /\ \A user_id \in RequestUserIds :
              OthersUntouched(RDB, cu, get_user_notifications(RDB, cu, user_id))

\* The request left the record of the target user as it was.
UserRecordKept(res, target) ==
    /\ target \in res.db.users
    /\ res.db.name[target] = user_name[target]
    /\ res.db.email[target] = user_email[target]

\* C23: a regular user (holding no admin role) cannot delete any user and
\* cannot modify another user's record: DELETE /users/{id}, DELETE
\* /users/bulk and PUT /users/{id} refuse the request with 401/403 or count
\* it as failed, and the target user still exists with the same name and
\* e-mail address.
C23_Original ==
    \A cu \in users : ~is_admin(UDB, cu) =>
        \A target \in users :
            /\ Denied(delete_user(UDB, cu, target))
            /\ UserRecordKept(delete_user(UDB, cu, target), target)
            /\ \A ids \in SeqsUpTo(UserIds, MaxBulk) :
                   LET res == bulk_delete_users(UDB, cu, ids)
                   IN /\ UserRecordKept(res, target)
                      /\ target \in SeqSet(ids) => res.failed_count > 0
            /\ target # cu =>
                   \A name \in UserNames \cup {None}, email \in Emails \cup {None} :
                       /\ Denied(update_user(UDB, cu, target, name, email))
                       /\ UserRecordKept(update_user(UDB, cu, target, name, email), target)

\* No two rows of the table hold the same value in the column.
UniqueColumn(table, col) ==
    \A x, y \in DOMAIN table : table[x][col] = table[y][col] => x = y

\* C24: under sequential execution no two documents share a code and no two
\* categories share a name (and no two revisions of a document share a
\* revision_number): create and update answer 400 and write nothing when
\* another row already uses the requested value.
C24_Original ==
    /\ UniqueColumn(documents, "code")
    /\ \A c1, c2 \in DOMAIN categories : categories[c1] = categories[c2] => c1 = c2
    /\ \A cu \in users, code \in RequestCodes, category_id \in RequestCategoryIds,
          id \in DocumentIds :
          LET res == update_document(RDB, cu, id, code, category_id)
          IN (\E d \in DOMAIN documents : d # id /\ documents[d].code = code)
                 /\ id \in DOMAIN documents
             => res.status = 400 /\ res.db = RDB

\* Two rows of the table agree on the columns.
SharedValue(table, cols) ==
    \E x, y \in DOMAIN table : x # y /\ \A c \in cols : table[x][c] = table[y][c]

\* C25: the uniqueness pre-check is not atomic with the write: a request that
\* has passed its existence query commits its row whatever the other requests
\* have committed in the meantime, for documents (code), categories (name)
\* and revisions (revision_number within a document), so two interleaved
\* creates of the same value both succeed.
C25_CheckThenWriteRace ==
    \A req \in BagToSet(inflight) :
      \A new_id \in TableIds(req.table) \ DOMAIN TableRows(req.table) :
        LET after == InsertRow(TableRows(req.table), req.row, new_id,
                               CheckedColumns(req.table))
        IN /\ new_id \in DOMAIN after
           /\ after[new_id] = req.row
           /\ \A x \in DOMAIN TableRows(req.table) : after[x] = TableRows(req.table)[x]

\* Two documents share a code, two categories share a name and two revisions
\* of one document share a revision_number.
C25_Witness ==
    /\ SharedValue(documents, {"code"})
    /\ SharedValue(TableRows("categories"), {"name"})
    /\ SharedValue(revisions, {"document_id", "revision_number"})

\* The e-mail is registered to a user other than the target (the comparison
\* ignores case).
RegisteredToAnother(email, target) ==
    \E u \in users \ {target} : Lower(user_email[u]) = Lower(email)

\* The target's name and email after the request are what they were before.
RecordUnchanged(res, target) ==
    /\ target \in res.db.users
    /\ res.db.name[target] = user_name[target]
    /\ res.db.email[target] = user_email[target]

\* C26: update_user and update_user_profile called with a new name and an
\* e-mail already registered to another user fail with 400, and the next
\* request finds the target's name and email exactly as they were: the name
\* assigned before the e-mail check is not written.
C26_NoPartialWrite ==
    \A cu \in users, name \in UserNames, email \in Emails :
        /\ \A user_id \in users :
              /\ is_admin(UDB, cu) \/ cu = user_id
              /\ RegisteredToAnother(email, user_id)
              => LET res == update_user(UDB, cu, user_id, name, email)
                 IN res.status = 400 /\ RecordUnchanged(res, user_id)
        /\ RegisteredToAnother(email, cu)
              => LET res == update_user_profile(UDB, cu, name, email)
                 IN res.status = 400 /\ RecordUnchanged(res, cu)

\* Both handlers refuse a request that carries a name different from the
\* stored one together with another user's e-mail.
C26_Witness ==
    \E cu \in users, user_id \in users, name \in UserNames, email \in Emails :
        /\ name # user_name[user_id]
        /\ name # user_name[cu]
        /\ RegisteredToAnother(email, user_id)
        /\ RegisteredToAnother(email, cu)
        /\ update_user(UDB, cu, user_id, name, email).status = 400
        /\ update_user_profile(UDB, cu, name, email).status = 400

\* C27: once a revision has status approved, its status stays approved in
\* every later state until the revision is deleted, whatever
\* update_revision_status and update_revision requests follow.
C27_Original ==
    [][\A r \in DOMAIN revisions :
          revisions[r].status = "approved" /\ r \in DOMAIN revisions'
          => revisions'[r].status = "approved"]_vars

\* Every document's category_id is null or the id of an existing category.
CategoryReferencesHold ==
    \A d \in DOMAIN documents :
        \/ documents[d].category_id = NoId
        \/ documents[d].category_id \in DOMAIN categories

\* The documents of a category.
DocumentsOf(category_id) ==
    {d \in DOMAIN documents : documents[d].category_id = category_id}

\* C28: delete_category of a category that a document still uses fails with
\* 400 and the category remains, and in every state reached by creating,
\* updating and deleting documents and categories each document's
\* category_id is null or the id of an existing category.
C28_Original ==
    /\ \A cu \in users, c \in DOMAIN categories :
          DocumentsOf(c) # {}
          => LET res == delete_category(RDB, cu, c)
             IN res.status = 400 /\ c \in DOMAIN res.db.categories
    /\ CategoryReferencesHold

\* After the request the caller holds no role named Admin and no permission
\* they did not hold before it.
NotEscalated(res, current_user) ==
    /\ "Admin" \notin RoleNamesOf(res.db, current_user)
    /\ get_user_permissions(res.db, current_user)
           \subseteq get_user_permissions(DB, current_user)

\* C29: no privilege escalation: a user who does not hold the Admin role
\* cannot, by their own requests to create_role, assign_role_to_user, the
\* bulk assignments or assign_permissions_to_role, come to hold the Admin
\* role or enlarge their own effective permission set.
C29_Original ==
    \A cu \in users \ Admins :
        /\ \A name \in RoleNames, slug \in RoleSlugInputs \cup {None},
              id \in RoleIds \ DOMAIN roles :
               NotEscalated(create_role(DB, name, slug, id), cu)
        /\ \A r \in RoleIds :
               NotEscalated(assign_role_to_user(DB, cu, r), cu)
        /\ \A r \in RoleIds, ids \in SeqsUpTo(UserIds, MaxBulk) :
               /\ NotEscalated(bulk_assign_role(DB, r, ids), cu)
               /\ NotEscalated(bulk_assign_roles_alt(DB, r, ids), cu)
        /\ \A r \in RoleIds, slugs \in SeqsUpTo(PermSlugs, MaxSlugs) :
               NotEscalated(assign_permissions_to_role(DB, r, slugs), cu)

\* C30: in every state reached by create_history, update_history,
\* log_action, delete_revision and delete_document, each history row refers
\* to an existing document, and each row with a non-null revision_id refers
\* to an existing revision of the same document.
C30_Original ==
    \A h \in DOMAIN histories :
        /\ histories[h].document_id \in DOMAIN documents
        /\ histories[h].revision_id # NoId
           => RevisionOf(RDB, histories[h].revision_id, histories[h].document_id)

====
